---- MODULE Spec2Model ----
(***************************************************************************)
(* The on-disk LRU cache of cloned git repositories (package cache:        *)
(* GitRepoLRUCache and GitRepoFilePath), the cache-backed provider         *)
(* (LRUCacheGitRepoProvider.FetchRepo) and the lease-holding part of the   *)
(* ingestion pipeline (PizzaOvenServer.processRepository).                 *)
(*                                                                         *)
(* Every worker is a goroutine.  A step is one stretch of code between two *)
(* points where the goroutine can block or where another goroutine can     *)
(* observe its effect: acquiring c.lock, acquiring an element's lock,      *)
(* a Statfs call, the directory checks, the clone.                         *)
(*                                                                         *)
(* Spec is the cache under direct calls and under FetchRepo.  SpecIngest   *)
(* is processRepository as a whole, with the database tables it writes and *)
(* the upstream repositories it clones.                                    *)
(***************************************************************************)
EXTENDS Integers, Sequences, FiniteSets, TLC

\* ---------------------------------------------------------------- bounds
\* NumWorkers goroutines use the cache, with NumKeys different key strings, on
\* a volume with room for DiskSize clones, and make at most MaxCalls calls of
\* Get, Put or FetchRepo
NumWorkers == 2
NumKeys == 3
DiskSize == 2
MaxCalls == 3

Workers == 1..NumWorkers
Keys == 1..NumKeys

\* The ingestion pipeline runs at most MaxRuns times, on NumRepos repository
\* URLs whose upstreams receive at most MaxCommits commits in all, written by
\* NumEmails authors at committer times of 1..MaxTime seconds
NumRepos == 2
NumEmails == 2
MaxTime == 2
MaxCommits == 2
MaxRuns == 2

Repos == 1..NumRepos
Emails == 1..NumEmails

\* ------------------------------------------------------- keys and paths
\* A key is the URL string handed to Get/Put.  Only its path segments matter
\* to the cache: the key is modelled as the sequence of its segments, 0 being
\* an empty segment (what a trailing "/" leaves behind).  Key 1 is a
\* repository URL, key 2 is the same URL with a trailing "/", every further
\* key is another repository.
Url(k) == IF k = 1 THEN <<1>> ELSE IF k = 2 THEN <<1, 0>> ELSE <<k - 1>>

\* filepath.Clean: empty segments disappear
Clean(segs) == SelectSeq(segs, LAMBDA s : s # 0)

\* filepath.Join(c.dir, key): the segments of dir (here the one segment -1)
\* followed by those of key, cleaned
PathKey(k) == Clean(<<-1>> \o Url(k))

Paths == {PathKey(k) : k \in Keys}

IsPrefix(p, q) == Len(p) <= Len(q) /\ SubSeq(q, 1, Len(p)) = p

\* neverEvictRepos: the map is keyed by URL string
neverEvictRepos == {1}

IsPinned(k) == k \in neverEvictRepos

\* ----------------------------------------------------------------- state
VARIABLES
    lock,           \* c.lock: 0 when free, else the worker that holds it
    dll,            \* c.dll: the elements, front first
    hm,             \* c.hm: key -> element, NoElem when the key is absent
    elock,          \* elock[k]: the mutex of the element created for key k
    disk,           \* the files under c.dir: path -> "absent" | "dir" | "repo"
    minFreeDiskGb,  \* c.minFreeDiskGb, in units of one repository
    other,          \* units of the volume taken by files that are not clones of
                    \* this cache (other processes write to the same volume)
    pc,             \* where each worker is
    op,             \* the call each worker is making: "Get", "Put", "Fetch"
    key,            \* its argument
    got,            \* the element it was handed
    ncalls,         \* number of Get, Put and FetchRepo calls made so far
    mode,           \* who calls the cache:
                    \*   "calls": the workers call Get, Put and Done directly
                    \*   "fetch": the workers are processRepository calls
                    \*   "put2":  every worker calls Put(SameKey) once and
                    \*            releases what it gets
    last,           \* history: what the latest step returned to its caller
                    \* when it returned no element ("" otherwise)
    putDone,        \* history: e is the element of a successful Put, from its
                    \* release until the next step that is not part of the
                    \* first Get of its key issued after the release; by is
                    \* the worker making that Get
    tight,          \* history: every element so far was inserted while the
                    \* volume could not provide the budget
    ret,            \* history ("put2" only): how the worker's Put returned
    clones,         \* history ("put2" only): number of PlainClone calls
    newc,           \* a call of NewGitRepoLRUCache: its arguments, what the
                    \* system calls answer, and what it returned
    \* ---- the ingestion pipeline, its database and the upstream repositories
    provider,       \* p.PizzaGitProvider: "cache" or "memory"
    upstream,       \* upstream[u]: the commits of the default branch of the
                    \* repository at URL u, oldest first; the hash of a commit
                    \* is its position
    repos,          \* table repos: the URLs, the id of a row is its position
    commit_authors, \* table commit_authors: the emails, id = position
    commits,        \* table commits: rows [hash, author, repo, date]
    tmpTables,      \* the temporary tables: name -> emails
    counter,        \* the process-wide counter of temporary table names
    lease,          \* lease[u]: the lock of the cache element of URL u is held
    st,             \* where each processRepository call is ("idle": no call)
    run,            \* the local variables of each processRepository call
    txn,            \* the state of the bulk transaction each call opened last
    nruns,          \* number of processRepository calls made so far
    fetched,        \* history: FetchRepo returned a handle to the call
    dones,          \* history: number of Done calls on that handle
    failedAt,       \* history: the stage at which the call returned an error
    synced,         \* history: a call on URL u has returned nil after fetching
                    \* the upstream as it is now
    seq,            \* history: the call began when synced[its URL] held and the
                    \* upstream has not changed since
    later,          \* history: when the call read the latest stored commit_date
                    \* every commit of its clone that was not stored was later
    \* ---- the handler of POST /bake
    req,            \* the request: method, body, and what the network answers
    hpc,            \* where handleRequest is ("none": no request is followed)
    status,         \* the status code of the response, 0 while none is written
    todo,           \* the cloneUrls the loop of the handler has not reached
    spawned,        \* spawned[w]: the URL with which goroutine w is about to
                    \* call processRepository, 0 for none
    handed,         \* history: the URLs handed to processRepository, in order
    \* ---- NormalizeGitURL
    norm            \* a URL string and what NormalizeGitURL returned for it
                    \* and then for each string it returned

cacheVars == <<lock, dll, hm, elock, disk, minFreeDiskGb, other, pc, op, key,
               got, ncalls, mode, last, putDone, tight, ret, clones, newc>>

ingestVars == <<provider, upstream, repos, commit_authors, commits, tmpTables,
                counter, lease, st, run, txn, nruns, fetched, dones, failedAt,
                synced, seq, later>>

vars == <<lock, dll, hm, elock, disk, minFreeDiskGb, other, pc, op, key, got,
          ncalls, mode, last, putDone, tight, ret, clones, newc,
          provider, upstream, repos, commit_authors, commits, tmpTables,
          counter, lease, st, run, txn, nruns, fetched, dones, failedAt,
          synced, seq, later,
          req, hpc, status, todo, spawned, handed, norm>>

bakeVars == <<req, hpc, status, todo, spawned, handed, norm>>

NoElem == [key |-> 0, path |-> <<>>]

\* &GitRepoFilePath{key: key, path: pathKey}
NewElement(k) == [key |-> k, path |-> PathKey(k)]

Elements == {NewElement(k) : k \in Keys}

\* ----------------------------------------------------- container/list, map
Front(l) == l[1]

Back(l) == l[Len(l)]

PushFront(l, e) == <<e>> \o l

\* mutant: the element stays linked
RemoveKeeps(l, e) == l

Remove(l, e) == SelectSeq(l, LAMBDA x : x # e)

\* mutant: the element stays where it is
MoveToFrontNot(l, e) == l

\* mutant: the element is unlinked
MoveToFrontDrops(l, e) == SelectSeq(l, LAMBDA x : x # e)

MoveToFront(l, e) == <<e>> \o SelectSeq(l, LAMBDA x : x # e)

\* mutant: the lookup finds nothing
LookupMiss(h, k) == NoElem

Lookup(h, k) == h[k]

\* mutant: every key is reported absent
PresentNever(h, k) == FALSE

Present(h, k) == Lookup(h, k) # NoElem

\* mutant: the index is not written
StoreNot(h, k, e) == h

Store(h, k, e) == [h EXCEPT ![k] = e]

Delete(h, k) == [h EXCEPT ![k] = NoElem]

\* ------------------------------------------------------------------ disk
\* os.Stat(p) succeeds when p exists: as a clone, as a directory, or as a
\* parent directory of one
StatOK(d, p) == \E q \in Paths : IsPrefix(p, q) /\ d[q] # "absent"

\* mutant: whatever is at p opens
PlainOpenOKAlways(d, p) == TRUE

\* git.PlainOpen(p) succeeds on a valid repository
PlainOpenOK(d, p) == d[p] = "repo"

\* os.RemoveAll(p) removes p and everything below it
RemoveAll(d, p) == [q \in Paths |-> IF IsPrefix(p, q) THEN "absent" ELSE d[q]]

\* os.MkdirAll(p)
MkdirAll(d, p) == [d EXCEPT ![p] = IF d[p] = "absent" THEN "dir" ELSE d[p]]

\* the units of the volume taken by the clones: one each
Clones(d) == Cardinality({p \in Paths : d[p] = "repo"})

\* mutant: free space over-reported by one unit
FreeBytesOff(d, o) == DiskSize + 1 - o - Clones(d)

\* stat.Bavail * stat.Bsize of the volume that holds c.dir
FreeBytes(d, o) == DiskSize - o - Clones(d)

\* what Statfs reports for an empty cache directory: the most the volume can
\* provide to the cache
Capacity(o) == DiskSize - o

\* One unit of the volume is 2^34 bytes (16 Gb).  A budget of n units is
\* 16 * n Gb, and its uint64 product with 1024 * 1024 * 1024 is n * 2^34 bytes
\* modulo 2^64: n modulo 2^30 units
Wrap == 1073741824

\* minFreeGbs * 1024 * 1024 * 1024 in uint64, in units
MinFreeBytes(gbs) == gbs % Wrap

\* mutant: strict comparison
BudgetViolatedStrict(free, minFree) == free < minFree

\* the loop condition of tryEvict
BudgetViolated(free, minFree) == free <= minFree

\* --------------------------------------------------------------- workers
\* the key of the scenario "put2": a repository of its own
SameKey == NumKeys

\* history is kept in the scenario "put2" only
NoRet == [r |-> "none", e |-> NoElem]

NoPut == [e |-> NoElem, by |-> 0]

Note(r, e) == IF mode = "put2" THEN [r |-> r, e |-> e] ELSE NoRet

\* the calls a worker may start
MayCall(w, o, k) ==
    /\ pc[w] = "idle"
    /\ ncalls < MaxCalls
    /\ mode = "calls" => o \in {"Get", "Put"}
    /\ mode = "fetch" => o = "Fetch"
    /\ mode = "put2" => (o = "Put" /\ k = SameKey /\ ret[w] = NoRet)

\* the count of calls once worker w has made its step: Put inside FetchRepo
\* is part of the FetchRepo call
Called(w) == IF pc[w] = "idle" THEN ncalls + 1 ELSE ncalls

\* the worker that called Get or Put directly keeps the entry ("held"); inside
\* FetchRepo the entry goes on to OpenAndFetch ("open")
Returned(o) == IF o = "Fetch" THEN "open" ELSE "held"

\* pcs at which the worker has an element's lock: it locked the element it
\* created (Put miss) or was handed the element locked, and has not called Done
LeasePcs == {"stat", "clone", "held", "open", "ingest"}

Holds(w, k) == pc[w] \in LeasePcs /\ key[w] = k

\* mutant: the lock is taken without waiting
CanLockAlways(k) == TRUE

\* mutant: the mutex is never acquired
CanLockNever(k) == FALSE

\* element.lock.Lock() returns only when the mutex is free
CanLock(k) == ~elock[k]

\* mutant: the mutex stays locked
UnlockNot(l, k) == l

\* element.lock.Unlock()
Unlock(l, k) == [l EXCEPT ![k] = FALSE]

Counted(n) == IF mode = "put2" THEN n + 1 ELSE n

\* ------------------------------------------------- the pipeline's data
\* time.Time{}: a time is its seconds and nanoseconds; committer times are
\* whole seconds, 1 or more
ZeroTime == [s |-> 0, ns |-> 0]

Seconds(t) == [s |-> t, ns |-> 0]

\* the locals of processRepository before the call sets them
NoRun == [repoURL |-> 0, repoID |-> 0, clone |-> 0, since |-> ZeroTime,
          tmpTableName |-> 0, uniqueAuthorEmails |-> <<>>,
          authorEmailIDMap |-> <<>>, stream |-> <<>>]

\* the zero value of reqData, never received
NoReq == [method |-> "", body |-> "", scheme |-> "", url |-> <<>>,
          org |-> "", wait |-> FALSE, archives |-> FALSE, reach |-> FALSE,
          listErr |-> FALSE, list |-> <<>>]

\* no URL string is followed through NormalizeGitURL
NoNorm == [scheme |-> "", path |-> <<>>, out |-> <<>>]

\* no request is followed
NoRequest ==
    /\ req = NoReq
    /\ hpc = "none"
    /\ status = 0
    /\ todo = <<>>
    /\ norm = NoNorm

\* no processRepository call has been made: empty tables
NoCalls ==
    /\ repos = <<>>
    /\ commit_authors = <<>>
    /\ commits = {}
    /\ tmpTables = <<>>
    /\ counter = 0
    /\ lease = [u \in Repos |-> FALSE]
    /\ st = [w \in Workers |-> "idle"]
    /\ run = [w \in Workers |-> NoRun]
    /\ txn = [w \in Workers |-> "none"]
    /\ nruns = 0
    /\ fetched = [w \in Workers |-> FALSE]
    /\ dones = [w \in Workers |-> 0]
    /\ failedAt = [w \in Workers |-> ""]
    /\ synced = [u \in Repos |-> FALSE]
    /\ seq = [w \in Workers |-> FALSE]
    /\ later = [w \in Workers |-> FALSE]
    /\ spawned = [w \in Workers |-> 0]
    /\ handed = <<>>

\* no processRepository call has been made: empty tables, empty upstreams
NoIngestion ==
    /\ upstream = [u \in Repos |-> <<>>]
    /\ NoCalls

\* no cache object
NoCache == [minFreeDiskGb |-> 0, dir |-> <<>>, dll |-> <<0>>, hm |-> <<0>>]

\* no call of NewGitRepoLRUCache is followed
NoCall == [dir |-> <<>>, minFreeGbs |-> 0, stat |-> FALSE, statfs |-> FALSE,
           c |-> NoCache, err |-> "none"]

\* NewGitRepoLRUCache has returned a cache: the directory may hold clones of
\* an earlier run, and the free bytes of the volume exceeded the budget
\* (freeSpace <= minFreeBytes makes the constructor fail)
Init ==
    /\ lock = 0
    /\ dll = <<>>
    /\ hm = [k \in Keys |-> NoElem]
    /\ elock = [k \in Keys |-> FALSE]
    /\ disk \in [Paths -> {"absent", "repo"}]
    /\ other \in 0..DiskSize
    /\ minFreeDiskGb \in 0..DiskSize
    /\ FreeBytes(disk, other) > minFreeDiskGb
    /\ pc = [w \in Workers |-> "idle"]
    /\ op = [w \in Workers |-> "none"]
    /\ key = [w \in Workers |-> 0]
    /\ got = [w \in Workers |-> NoElem]
    /\ ncalls = 0
    /\ mode \in {"calls", "fetch", "put2"}
    /\ last = ""
    /\ putDone = NoPut
    /\ tight = TRUE
    /\ ret = [w \in Workers |-> NoRet]
    /\ clones = 0
    /\ newc = NoCall
    /\ provider = "cache"
    /\ NoIngestion
    /\ NoRequest

\* the call of worker w returns without an element
Return(w, r) ==
    /\ pc' = [pc EXCEPT ![w] = "idle"]
    /\ op' = [op EXCEPT ![w] = "none"]
    /\ key' = [key EXCEPT ![w] = 0]
    /\ got' = [got EXCEPT ![w] = NoElem]
    /\ ret' = [ret EXCEPT ![w] = Note(r, NoElem)]
    /\ last' = r
    /\ putDone' = NoPut

\* the call of worker w returns element e, locked
ReturnElement(w, e) ==
    /\ pc' = [pc EXCEPT ![w] = Returned(op[w])]
    /\ got' = [got EXCEPT ![w] = e]
    /\ ret' = [ret EXCEPT ![w] = Note("entry", e)]
    /\ last' = ""
    /\ UNCHANGED <<op, key>>

\* history: worker w issues a Get of key k / its Get returns
AfterGetHit(w, k) ==
    putDone' = IF putDone.e.key = k /\ putDone.by = 0
               THEN [putDone EXCEPT !.by = w] ELSE NoPut

AfterGetLease(w) == putDone' = IF putDone.by = w THEN putDone ELSE NoPut

\* Get, the key is in c.hm: move to front, then wait for the element's lock
\* with c.lock held
GetHit(w, k, o) ==
    /\ MayCall(w, o, k) /\ o \in {"Get", "Fetch"}
    /\ lock = 0
    /\ Present(hm, k)
    /\ lock' = w
    /\ dll' = MoveToFront(dll, Lookup(hm, k))
    /\ pc' = [pc EXCEPT ![w] = "get_lease"]
    /\ op' = [op EXCEPT ![w] = o]
    /\ key' = [key EXCEPT ![w] = k]
    /\ last' = ""
    /\ AfterGetHit(w, k)
    /\ ncalls' = Called(w)
    /\ UNCHANGED <<hm, elock, disk, minFreeDiskGb, other, got, mode, tight, ret, clones>>
    /\ UNCHANGED <<newc, ingestVars, bakeVars>>

\* Get, the key is not in c.hm: nil.  FetchRepo goes on to call Put.
GetMiss(w, k, o) ==
    /\ MayCall(w, o, k) /\ o \in {"Get", "Fetch"}
    /\ lock = 0
    /\ ~Present(hm, k)
    /\ pc' = [pc EXCEPT ![w] = IF o = "Fetch" THEN "put_call" ELSE "idle"]
    /\ op' = [op EXCEPT ![w] = IF o = "Fetch" THEN o ELSE "none"]
    /\ key' = [key EXCEPT ![w] = IF o = "Fetch" THEN k ELSE 0]
    /\ last' = "nil"
    /\ putDone' = NoPut
    /\ ncalls' = Called(w)
    /\ UNCHANGED <<lock, dll, hm, elock, disk, minFreeDiskGb, other, got, mode, tight, ret, clones>>
    /\ UNCHANGED <<newc, ingestVars, bakeVars>>

\* the element's lock is acquired; the deferred c.lock.Unlock() runs and the
\* element is returned
GetLease(w) ==
    /\ pc[w] = "get_lease"
    /\ CanLock(key[w])
    /\ elock' = [elock EXCEPT ![key[w]] = TRUE]
    /\ lock' = 0
    /\ ReturnElement(w, Lookup(hm, key[w]))
    /\ AfterGetLease(w)
    /\ UNCHANGED <<dll, hm, disk, minFreeDiskGb, other, mode, ncalls, tight, clones>>
    /\ UNCHANGED <<newc, ingestVars, bakeVars>>

\* Put is called by a worker directly or by FetchRepo after Get returned nil
PutCalled(w, k) ==
    \/ MayCall(w, "Put", k)
    \/ pc[w] = "put_call" /\ key[w] = k

PutOp(w) == IF pc[w] = "put_call" THEN op[w] ELSE "Put"

\* Put, cache hit: as Get, with c.lock released by hand
PutHit(w, k) ==
    /\ PutCalled(w, k)
    /\ lock = 0
    /\ Present(hm, k)
    /\ lock' = w
    /\ dll' = MoveToFront(dll, Lookup(hm, k))
    /\ pc' = [pc EXCEPT ![w] = "put_lease"]
    /\ op' = [op EXCEPT ![w] = PutOp(w)]
    /\ key' = [key EXCEPT ![w] = k]
    /\ last' = ""
    /\ putDone' = NoPut
    /\ ncalls' = Called(w)
    /\ UNCHANGED <<hm, elock, disk, minFreeDiskGb, other, got, mode, tight, ret, clones>>
    /\ UNCHANGED <<newc, ingestVars, bakeVars>>

PutLease(w) ==
    /\ pc[w] = "put_lease"
    /\ CanLock(key[w])
    /\ elock' = [elock EXCEPT ![key[w]] = TRUE]
    /\ lock' = 0
    /\ ReturnElement(w, Lookup(hm, key[w]))
    /\ putDone' = NoPut
    /\ UNCHANGED <<dll, hm, disk, minFreeDiskGb, other, mode, ncalls, tight, clones>>
    /\ UNCHANGED <<newc, ingestVars, bakeVars>>

\* Put, cache miss: c.lock stays held and tryEvict starts
PutMiss(w, k) ==
    /\ PutCalled(w, k)
    /\ lock = 0
    /\ ~Present(hm, k)
    /\ lock' = w
    /\ pc' = [pc EXCEPT ![w] = "evict"]
    /\ op' = [op EXCEPT ![w] = PutOp(w)]
    /\ key' = [key EXCEPT ![w] = k]
    /\ last' = ""
    /\ putDone' = NoPut
    /\ ncalls' = Called(w)
    /\ UNCHANGED <<dll, hm, elock, disk, minFreeDiskGb, other, got, mode, tight, ret, clones>>
    /\ UNCHANGED <<newc, ingestVars, bakeVars>>

\* ------------------------------------------------------------- tryEvict
\* unix.Statfs fails (the first call or the re-calculation): tryEvict returns
\* the error and Put returns it with c.lock released
TryEvictStatfsFail(w) ==
    /\ pc[w] = "evict"
    /\ lock' = 0
    /\ Return(w, "err_statfs")
    /\ UNCHANGED <<dll, hm, elock, disk, minFreeDiskGb, other, mode, ncalls, tight, clones>>
    /\ UNCHANGED <<newc, ingestVars, bakeVars>>

\* mutant: the pinned check is skipped
WalkNeverFails(l) == FALSE

\* The walk over pinned elements.  Its loop variable isInNeverEvictRepos is
\* set once, from the back element, and never again; lruNode.Next() of the
\* back element is nil.  So a pinned back element ends the walk with the
\* error, and an unpinned back element is the victim.
WalkFails(l) == IsPinned(Back(l).key)

\* mutant: the most recently used element is taken
VictimFront(l) == Front(l)

Victim(l) == Back(l)

TryEvictPinned(w) ==
    /\ pc[w] = "evict"
    /\ BudgetViolated(FreeBytes(disk, other), MinFreeBytes(minFreeDiskGb))
    /\ dll # <<>>
    /\ WalkFails(dll)
    /\ lock' = 0
    /\ Return(w, "err_pinned")
    /\ UNCHANGED <<dll, hm, elock, disk, minFreeDiskGb, other, mode, ncalls, tight, clones>>
    /\ UNCHANGED <<newc, ingestVars, bakeVars>>

\* One turn of the loop: the victim's lock is acquired (the worker waits for
\* it with c.lock held), its path removed, the element dropped from hm and
\* dll.  The victim's mutex is never unlocked again.
TryEvictOne(w) ==
    /\ pc[w] = "evict"
    /\ BudgetViolated(FreeBytes(disk, other), MinFreeBytes(minFreeDiskGb))
    /\ dll # <<>>
    /\ ~WalkFails(dll)
    /\ CanLock(Victim(dll).key)
    /\ elock' = [elock EXCEPT ![Victim(dll).key] = TRUE]
    /\ disk' = RemoveAll(disk, Victim(dll).path)
    /\ hm' = Delete(hm, Victim(dll).key)
    /\ dll' = Remove(dll, Victim(dll))
    /\ last' = ""
    /\ putDone' = NoPut
    /\ UNCHANGED <<lock, minFreeDiskGb, other, pc, op, key, got, mode, ncalls, tight, ret, clones>>
    /\ UNCHANGED <<newc, ingestVars, bakeVars>>

\* The loop ends (enough free bytes, or the list is empty): tryEvict returns
\* nil, Put creates the element, pushes it to the front, locks it (a new
\* mutex) and releases c.lock
PutInsert(w) ==
    /\ pc[w] = "evict"
    /\ ~BudgetViolated(FreeBytes(disk, other), MinFreeBytes(minFreeDiskGb)) \/ dll = <<>>
    /\ dll' = PushFront(dll, NewElement(key[w]))
    /\ hm' = Store(hm, key[w], NewElement(key[w]))
    /\ elock' = [elock EXCEPT ![key[w]] = TRUE]
    /\ lock' = 0
    /\ pc' = [pc EXCEPT ![w] = "stat"]
    /\ last' = ""
    /\ putDone' = NoPut
    /\ tight' = (tight /\ Capacity(other) <= minFreeDiskGb)
    /\ UNCHANGED <<disk, minFreeDiskGb, other, op, key, got, mode, ncalls, ret, clones>>
    /\ UNCHANGED <<newc, ingestVars, bakeVars>>

\* -------------------------------------------- Put, after c.lock.Unlock()
\* the directory exists and opens as a repository: the element is returned
\* without a clone
PutAdopt(w) ==
    /\ pc[w] = "stat"
    /\ StatOK(disk, PathKey(key[w])) /\ PlainOpenOK(disk, PathKey(key[w]))
    /\ ReturnElement(w, NewElement(key[w]))
    /\ putDone' = NoPut
    /\ UNCHANGED <<lock, dll, hm, elock, disk, minFreeDiskGb, other, mode, ncalls, tight, clones>>
    /\ UNCHANGED <<newc, ingestVars, bakeVars>>

\* what is on disk when MkdirAll is called: an existing path that is not a
\* repository has been removed
BeforeMkdir(d, p) == IF StatOK(d, p) THEN RemoveAll(d, p) ELSE d

PutMkdir(w) ==
    /\ pc[w] = "stat"
    /\ ~(StatOK(disk, PathKey(key[w])) /\ PlainOpenOK(disk, PathKey(key[w])))
    /\ disk' = MkdirAll(BeforeMkdir(disk, PathKey(key[w])), PathKey(key[w]))
    /\ pc' = [pc EXCEPT ![w] = "clone"]
    /\ last' = ""
    /\ putDone' = NoPut
    /\ UNCHANGED <<lock, dll, hm, elock, minFreeDiskGb, other, op, key, got, mode, ncalls, tight, ret, clones>>
    /\ UNCHANGED <<newc, ingestVars, bakeVars>>

\* os.MkdirAll fails: the element is unlocked and stays in hm and dll
PutMkdirFail(w) ==
    /\ pc[w] = "stat"
    /\ ~(StatOK(disk, PathKey(key[w])) /\ PlainOpenOK(disk, PathKey(key[w])))
    /\ disk' = BeforeMkdir(disk, PathKey(key[w]))
    /\ elock' = Unlock(elock, key[w])
    /\ Return(w, "err_mkdir")
    /\ UNCHANGED <<lock, dll, hm, minFreeDiskGb, other, mode, ncalls, tight, clones>>
    /\ UNCHANGED <<newc, ingestVars, bakeVars>>

\* git.PlainClone succeeds: needs room on the volume and a path that is not
\* a repository already
PutCloneOK(w) ==
    /\ pc[w] = "clone"
    /\ FreeBytes(disk, other) > 0
    /\ ~PlainOpenOK(disk, PathKey(key[w]))
    /\ disk' = [disk EXCEPT ![PathKey(key[w])] = "repo"]
    /\ ReturnElement(w, NewElement(key[w]))
    /\ clones' = Counted(clones)
    /\ putDone' = NoPut
    /\ UNCHANGED <<lock, dll, hm, elock, minFreeDiskGb, other, mode, ncalls, tight>>
    /\ UNCHANGED <<newc, ingestVars, bakeVars>>

\* git.PlainClone fails: the element is unlocked and stays in hm and dll; Put
\* removes nothing from the disk
PutCloneFail(w) ==
    /\ pc[w] = "clone"
    /\ elock' = Unlock(elock, key[w])
    /\ Return(w, "err_clone")
    /\ clones' = Counted(clones)
    /\ UNCHANGED <<lock, dll, hm, disk, minFreeDiskGb, other, mode, ncalls, tight>>
    /\ UNCHANGED <<newc, ingestVars, bakeVars>>

\* ---------------------------------------------------------- the volume
\* Another process writes to or deletes from the volume that holds c.dir:
\* the next Statfs reports another number of available blocks
VolumeChanges(o) ==
    /\ o # other
    /\ o + Clones(disk) <= DiskSize
    /\ other' = o
    /\ UNCHANGED <<lock, dll, hm, elock, disk, minFreeDiskGb, pc, op, key, got,
                   mode, ncalls, last, putDone, tight, ret, clones>>
    /\ UNCHANGED <<newc, ingestVars, bakeVars>>

\* ------------------------------------------------- FetchRepo and its caller
\* OpenAndFetch succeeds: FetchRepo returns the CachedGitRepo
OpenAndFetchOK(w) ==
    /\ pc[w] = "open"
    /\ PlainOpenOK(disk, got[w].path)
    /\ pc' = [pc EXCEPT ![w] = "ingest"]
    /\ last' = ""
    /\ putDone' = NoPut
    /\ UNCHANGED <<lock, dll, hm, elock, disk, minFreeDiskGb, other, op, key, got, mode, ncalls, tight, ret, clones>>
    /\ UNCHANGED <<newc, ingestVars, bakeVars>>

\* OpenAndFetch fails (no repository at the path, or the pull fails): FetchRepo
\* returns the error; the element is not unlocked
OpenAndFetchFail(w) ==
    /\ pc[w] = "open"
    /\ Return(w, "err_open")
    /\ UNCHANGED <<lock, dll, hm, elock, disk, minFreeDiskGb, other, mode, ncalls, tight, clones>>
    /\ UNCHANGED <<newc, ingestVars, bakeVars>>

\* Done: g.lock.Unlock() on the element handed out.  A direct caller calls it
\* on the entry it holds; processRepository runs it (deferred) when it
\* returns: after ResolveTransaction of the commits, or at the first error
\* after FetchRepo.
Done(w) ==
    /\ pc[w] \in {"held", "ingest"}
    /\ elock' = Unlock(elock, got[w].key)
    /\ pc' = [pc EXCEPT ![w] = "idle"]
    /\ op' = [op EXCEPT ![w] = "none"]
    /\ key' = [key EXCEPT ![w] = 0]
    /\ got' = [got EXCEPT ![w] = NoElem]
    /\ last' = ""
    /\ putDone' = IF op[w] = "Put" THEN [e |-> got[w], by |-> 0] ELSE NoPut
    /\ UNCHANGED <<lock, dll, hm, disk, minFreeDiskGb, other, mode, ncalls, tight, ret, clones>>
    /\ UNCHANGED <<newc, ingestVars, bakeVars>>

Next ==
    \/ \E w \in Workers, k \in Keys, o \in {"Get", "Fetch"} : GetHit(w, k, o)
    \/ \E w \in Workers, k \in Keys, o \in {"Get", "Fetch"} : GetMiss(w, k, o)
    \/ \E w \in Workers : GetLease(w)
    \/ \E w \in Workers, k \in Keys : PutHit(w, k)
    \/ \E w \in Workers : PutLease(w)
    \/ \E w \in Workers, k \in Keys : PutMiss(w, k)
    \/ \E w \in Workers : TryEvictStatfsFail(w)
    \/ \E w \in Workers : TryEvictPinned(w)
    \/ \E w \in Workers : TryEvictOne(w)
    \/ \E w \in Workers : PutInsert(w)
    \/ \E w \in Workers : PutAdopt(w)
    \/ \E w \in Workers : PutMkdir(w)
    \/ \E w \in Workers : PutMkdirFail(w)
    \/ \E w \in Workers : PutCloneOK(w)
    \/ \E w \in Workers : PutCloneFail(w)
    \/ \E w \in Workers : OpenAndFetchOK(w)
    \/ \E w \in Workers : OpenAndFetchFail(w)
    \/ \E w \in Workers : Done(w)
    \/ \E o \in 0..DiskSize : VolumeChanges(o)

Spec == Init /\ [][Next]_vars

\* A goroutine that can take its next step takes it: every call that has
\* begun goes on while it is not made to wait, and every caller that was
\* handed an element releases it
Continue(w) ==
    \/ GetLease(w)
    \/ PutLease(w)
    \/ PutHit(w, key[w])
    \/ PutMiss(w, key[w])
    \/ TryEvictStatfsFail(w)
    \/ TryEvictPinned(w)
    \/ TryEvictOne(w)
    \/ PutInsert(w)
    \/ PutAdopt(w)
    \/ PutMkdir(w)
    \/ PutMkdirFail(w)
    \/ PutCloneOK(w)
    \/ PutCloneFail(w)
    \/ OpenAndFetchOK(w)
    \/ OpenAndFetchFail(w)
    \/ Done(w)

SpecFair == Init /\ [][Next]_vars /\ \A w \in Workers : WF_vars(pc[w] # "idle" /\ Continue(w))

\* =================================================================== claims
Len0(l) == 1..Len(l)

KeysOf(l) == {l[i].key : i \in Len0(l)}

Unpinned(l) == {i \in Len0(l) : ~IsPinned(l[i].key)}

\* an eviction has taken place: the mutex of an evicted element stays locked
Evicted == \E k \in Keys : elock[k] /\ ~Present(hm, k)

\* the step is one of worker w inside tryEvict (it holds c.lock)
EvictStep(w) == pc[w] = "evict" /\ (pc'[w] # pc[w] \/ dll' # dll)

\* C1: in every reachable state the keys of the index (hm) are the keys of
\* the ordered sequence (dll), every key is at exactly one position of the
\* sequence, and hm[k] is the element of the sequence whose key is k.
C1_IndexMatchesList ==
    /\ \A k \in Keys : Present(hm, k) <=> k \in KeysOf(dll)
    /\ \A i, j \in Len0(dll) : dll[i].key = dll[j].key => i = j
    /\ \A k \in Keys : Present(hm, k) =>
          /\ Lookup(hm, k).key = k
          /\ \E i \in Len0(dll) : dll[i] = Lookup(hm, k)

W_C1 ==
    /\ Evicted
    /\ Len(dll) >= 2
    /\ \E w \in Workers : pc[w] = "clone"

\* C2: while a worker holds the lease of an entry, no step of another worker
\* removes the entry from hm or dll, deletes its on-disk path or clones into
\* its path.
C2_LeaseProtects ==
    [][\A w \in Workers, k \in Keys :
          (Holds(w, k) /\ pc'[w] = pc[w] /\ key'[w] = key[w]) =>
              /\ hm'[k] = hm[k]
              /\ k \in KeysOf(dll')
              /\ disk'[PathKey(k)] = disk[PathKey(k)]]_vars

\* C3: no eviction step of tryEvict removes a cached pinned URL from the
\* cache or deletes its on-disk path.
C3_PinnedNeverEvicted ==
    [][\A w \in Workers, p \in neverEvictRepos :
          (TryEvictOne(w) /\ Present(hm, p)) =>
              /\ hm'[p] = hm[p]
              /\ p \in KeysOf(dll')
              /\ disk'[PathKey(p)] = disk[PathKey(p)]]_vars

\* the step is the successful return of a Put of worker w
PutReturns(w) ==
    /\ pc[w] \in {"put_lease", "stat", "clone"}
    /\ pc'[w] \in {"held", "open"}

\* C4 (as claimed): after every Put that returns success, free bytes are at
\* least min_free_bytes or every entry left in the cache is pinned.
C4_BudgetAfterPut ==
    [][\A w \in Workers :
          PutReturns(w) =>
              \/ FreeBytes(disk', other') >= minFreeDiskGb
              \/ Unpinned(dll') = {}]_vars

\* C4 (amended): when the tryEvict of a Put miss returns without error and
\* the new entry is inserted, the free bytes it measured exceed
\* min_free_bytes or the cache held no entry.
C4_BudgetAtInsert ==
    [][\A w \in Workers :
          (pc[w] = "evict" /\ pc'[w] = "stat") =>
              \/ FreeBytes(disk, other) > minFreeDiskGb
              \/ (dll = <<>> /\ dll' = <<NewElement(key[w])>>)]_vars

W_C4 ==
    \E w \in Workers :
        /\ pc[w] = "held" /\ op[w] = "Put"
        /\ FreeBytes(disk, other) < minFreeDiskGb
        /\ Unpinned(dll) # {}
        /\ Len(dll) >= 2

\* the least recently used element whose key is not pinned
LruUnpinned(l) ==
    l[CHOOSE i \in Unpinned(l) : \A j \in Unpinned(l) : j <= i]

\* C5: when the budget is violated, the back element is pinned and an
\* unpinned element exists (whose lease is free), the step of tryEvict evicts
\* the least recently used unpinned element and goes on.
C5_SkipsPinned ==
    [][\A w \in Workers :
          ( /\ EvictStep(w)
            /\ BudgetViolated(FreeBytes(disk, other), minFreeDiskGb)
            /\ dll # <<>>
            /\ IsPinned(Back(dll).key)
            /\ Unpinned(dll) # {}
            /\ CanLock(LruUnpinned(dll).key)
            /\ last' # "err_statfs" ) =>
              /\ pc'[w] = "evict"
              /\ dll' = Remove(dll, LruUnpinned(dll))
              /\ ~Present(hm', LruUnpinned(dll).key)]_vars

\* C6: when the budget is violated and every entry of the non-empty cache is
\* pinned, the tryEvict of a Put miss makes Put return an error: nothing is
\* added to or removed from hm and dll, no path is deleted, and the caller is
\* left with neither c.lock nor an element's lock.
C6_AllPinnedFails ==
    [][\A w \in Workers :
          ( /\ EvictStep(w)
            /\ BudgetViolated(FreeBytes(disk, other), minFreeDiskGb)
            /\ dll # <<>>
            /\ Unpinned(dll) = {} ) =>
              /\ last' \in {"err_pinned", "err_statfs"}
              /\ pc'[w] = "idle"
              /\ hm' = hm /\ dll' = dll /\ disk' = disk
              /\ lock' = 0
              /\ elock' = elock]_vars

W_C6 ==
    /\ last = "err_pinned"
    /\ dll # <<>>
    /\ Unpinned(dll) = {}
    /\ BudgetViolated(FreeBytes(disk, other), minFreeDiskGb)
    /\ lock = 0

\* C7: as long as every Put found a budget the disk could not provide (the
\* free bytes of the volume, even with no clone on it, at most
\* min_free_bytes), the cache holds at most one unpinned entry, and while a
\* worker has the entry of its successful Put(u), an unpinned entry is u.
C7_OneUnpinnedEntry ==
    tight =>
        /\ Cardinality(Unpinned(dll)) <= 1
        /\ \A w \in Workers :
              (pc[w] = "held" /\ op[w] = "Put") =>
                  /\ key[w] \in KeysOf(dll)
                  /\ \A i \in Unpinned(dll) : dll[i].key = key[w]

W_C7 ==
    /\ tight
    /\ Evicted
    /\ \E w \in Workers :
          /\ pc[w] = "held" /\ op[w] = "Put" /\ ~IsPinned(key[w])
          /\ dll = <<NewElement(key[w])>>

\* C8: after a Put returned success and its entry was released, a Get of the
\* same URL with no cache step in between is a hit: it finds the entry, gets
\* its lock and returns that same entry.
C8_GetAfterPutHits ==
    [][\A w \in Workers :
          /\ (putDone # NoPut /\ putDone.by = 0) =>
                /\ ~GetMiss(w, putDone.e.key, "Get")
                /\ GetHit(w, putDone.e.key, "Get") =>
                      /\ Lookup(hm, putDone.e.key) = putDone.e
                      /\ CanLock(putDone.e.key)
          /\ (putDone.by = w /\ pc[w] # "held") =>
                /\ pc[w] = "get_lease" /\ key[w] = putDone.e.key
                /\ CanLock(key[w])
                /\ pc'[w] # pc[w] => (pc'[w] = "held" /\ got'[w] = putDone.e)]_vars

W_C8 ==
    \E w \in Workers :
        /\ pc[w] = "held" /\ op[w] = "Get"
        /\ putDone.by = w /\ got[w] = putDone.e

\* every worker of the scenario has made its Put and released what it got
AllPut == \A w \in Workers : pc[w] = "idle" /\ ret[w] # NoRet

\* C9 (as claimed): two workers call Put(U) on a cache without U: exactly
\* one clone is performed, one entry for U exists, and both workers receive
\* the same entry.
C9_ExactlyOneClone ==
    (mode = "put2" /\ AllPut) =>
        /\ clones = 1
        /\ Cardinality({i \in Len0(dll) : dll[i].key = SameKey}) = 1
        /\ \A w \in Workers : ret[w] = [r |-> "entry", e |-> Lookup(hm, SameKey)]

\* C9 (amended): at most one clone of U is attempted, at most one entry for
\* U exists, every worker whose Put succeeds receives that entry, and no two
\* workers have it at the same time.
C9_AtMostOneClone ==
    mode = "put2" =>
        /\ clones <= 1
        /\ Cardinality({i \in Len0(dll) : dll[i].key = SameKey}) <= 1
        /\ \A w \in Workers :
              ret[w].r = "entry" =>
                  (ret[w].e = Lookup(hm, SameKey) /\ ret[w].e.key = SameKey)
        /\ \A w1, w2 \in Workers :
              (Holds(w1, SameKey) /\ Holds(w2, SameKey)) => w1 = w2

W_C9 ==
    /\ mode = "put2"
    /\ AllPut
    /\ clones = 1
    /\ \A w \in Workers : ret[w].r = "entry"

\* C10: at most one worker holds the lease of an entry, so two ingestions of
\* the same URL never both are between FetchRepo's return and Done.
C10_OneLeaseHolder ==
    /\ \A w1, w2 \in Workers, k \in Keys :
          (Holds(w1, k) /\ Holds(w2, k)) => w1 = w2
    /\ \A w \in Workers, k \in Keys : Holds(w, k) => elock[k]
    /\ \A w1, w2 \in Workers :
          (pc[w1] = "ingest" /\ pc[w2] = "ingest" /\ key[w1] = key[w2]) => w1 = w2

W_C10 ==
    \E w1, w2 \in Workers :
        /\ pc[w1] = "ingest"
        /\ pc[w2] \in {"get_lease", "put_lease"}
        /\ key[w1] = key[w2]

\* the key whose element lock worker w is waiting for or about to take, 0 if
\* none: in Get and in the hit branch of Put the element found, in tryEvict
\* the victim
Awaits(w) ==
    IF pc[w] \in {"get_lease", "put_lease"} THEN key[w]
    ELSE IF /\ pc[w] = "evict"
            /\ BudgetViolated(FreeBytes(disk, other), minFreeDiskGb)
            /\ dll # <<>>
            /\ ~WalkFails(dll)
         THEN Victim(dll).key
         ELSE 0

\* C11: a Get or Put-hit of a cached URL v whose entry is not leased does
\* not wait for the release of a lease held on another URL u: c.lock, which
\* the call needs, is never held by a worker that waits for a lease that
\* another worker holds on u.
C11_DifferentUrlsInParallel ==
    \A v \in Keys, w \in Workers :
        (Present(hm, v) /\ CanLock(v) /\ lock = w) =>
            ~ \E w2 \in Workers \ {w} :
                  Awaits(w) # v /\ Holds(w2, Awaits(w))

\* C12: every lease is released: the mutex of a cached element is locked
\* only while a worker has the element (between the return of Get or Put and
\* Done), so no element stays locked after FetchRepo returned an error.
C12_NoLeaseLeft ==
    \A k \in Keys :
        (Present(hm, k) /\ elock[k]) => \E w \in Workers : Holds(w, k)

\* C15: when the clone of a Put fails, the directory of the entry is gone
\* from the disk when Put returns its error.
C15_FailedCloneRemovesDir ==
    [][\A w \in Workers :
          (pc[w] = "clone" /\ pc'[w] = "idle") =>
              ~StatOK(disk', PathKey(key[w]))]_vars

\* C16: when MkdirAll or the clone of a Put miss fails, Put returns an error
\* with the new element unlocked and still in hm and dll, both unchanged; and
\* a Put that finds its key in hm returns that element without touching the
\* disk (no clone).
C16_FailedPutKeepsEntry ==
    [][\A w \in Workers :
          /\ (pc[w] \in {"stat", "clone"} /\ pc'[w] = "idle") =>
                /\ last' \in {"err_mkdir", "err_clone"}
                /\ ~elock'[key[w]]
                /\ Lookup(hm', key[w]) = NewElement(key[w])
                /\ hm' = hm /\ dll' = dll
          /\ (pc[w] = "put_lease" /\ pc'[w] # "put_lease") =>
                /\ pc'[w] \in {"held", "open"}
                /\ got'[w] = Lookup(hm, key[w])
                /\ disk' = disk /\ clones' = clones]_vars

W_C16 ==
    \E w \in Workers :
        /\ pc[w] = "held" /\ op[w] = "Put"
        /\ dll = <<got[w]>>
        /\ disk[got[w].path] = "dir"
        /\ \A k \in Keys : elock[k] => k = key[w]

\* ===================================================== ingestion pipeline
\* PizzaOvenServer.processRepository, one call per worker at a time, with the
\* database behind p.PizzaOven and the repositories it clones.  A step is one
\* call of the database handler or of the provider, together with the local
\* code up to the next such call.  In this part the cache-backed provider is
\* what the call sees of it: the lock of the element of the URL.
Range(f) == {f[i] : i \in DOMAIN f}

\* t.Before(u)
Before(t, u) == t.s < u.s \/ (t.s = u.s /\ t.ns < u.ns)

\* mutant: the stored date is used as it is
AddNothing(t) == t

\* latestCommitDate.Add(time.Nanosecond)
AddNanosecond(t) == [t EXCEPT !.ns = @ + 1]

\* the commit at position i of the upstream of u
CommitAt(u, i) ==
    [hash |-> i, email |-> upstream[u][i].email,
     when |-> Seconds(upstream[u][i].when)]

\* gitRepo.Log(&git.LogOptions{From: ref.Hash(), Since: &since}) on a clone
\* holding the first n commits of u: the walk goes from the head to the root
\* and leaves out every commit whose committer time is before since
RECURSIVE Log(_, _, _)
Log(u, n, since) ==
    IF n = 0 THEN <<>>
    ELSE IF Before(CommitAt(u, n).when, since) THEN Log(u, n - 1, since)
         ELSE <<CommitAt(u, n)>> \o Log(u, n - 1, since)

\* the commits the two walks of the call of worker w yield
Yielded(w) == Log(run[w].repoURL, run[w].clone, run[w].since)

\* SELECT id FROM public.repos WHERE git_url=$1; 0 is sql.ErrNoRows
GetRepositoryID(u) ==
    IF u \in Range(repos) THEN CHOOSE i \in DOMAIN repos : repos[i] = u ELSE 0

\* mutant: the WHERE clause does not name the repository
GetLastCommitAnyRepo(r) ==
    LET dates == {c.date : c \in commits}
    IN  IF dates = {} THEN ZeroTime
        ELSE CHOOSE d \in dates : \A e \in dates : ~Before(d, e)

\* SELECT commit_date ... WHERE repo_id=$1 ORDER BY commit_date DESC LIMIT 1;
\* time.Time{} when there is no row
GetLastCommit(r) ==
    LET dates == {c.date : c \in {x \in commits : x.repo = r}}
    IN  IF dates = {} THEN ZeroTime
        ELSE CHOOSE d \in dates : \A e \in dates : ~Before(d, e)

\* mutant: the email is appended without looking at the set
AppendAlways(emails, e) == Append(emails, e)

\* the body of authorIter.ForEach: an email already in authorEmailSet is
\* skipped, a new one is added to uniqueAuthorEmails and to the stream
AppendUnique(emails, e) ==
    IF e \in Range(emails) THEN emails ELSE Append(emails, e)

RECURSIVE ForEachAuthor(_, _)
ForEachAuthor(l, emails) ==
    IF l = <<>> THEN emails
    ELSE ForEachAuthor(Tail(l), AppendUnique(emails, Head(l).email))

\* INSERT ... SELECT ... ON CONFLICT (commit_author_email) DO NOTHING
RECURSIVE Pivot(_, _)
Pivot(table, rows) ==
    IF rows = <<>> THEN table
    ELSE Pivot(IF Head(rows) \in Range(table) THEN table
               ELSE Append(table, Head(rows)),
               Tail(rows))

\* stage_authors_begin: a temporary table of that name, with no rows
CreateTmpTable(tables, name) ==
    [n \in DOMAIN tables \cup {name} |->
        IF n = name THEN <<>> ELSE tables[n]]

\* commit_transaction of the author stream: its rows are in the table
FlushAuthors(tables, name, rows) == [tables EXCEPT ![name] = rows]

\* pivot_authors drops the temporary table
DropTmpTable(tables, name) == [n \in DOMAIN tables \ {name} |-> tables[n]]

\* commit_transaction of the commit stream: its rows are in commits
FlushCommits(table, rows) == table \cup Range(rows)

\* the email -> id map of the emails that have a row in commit_authors
GetAuthorIDs(emails) ==
    [e \in Range(emails) \cap Range(commit_authors) |->
        CHOOSE i \in DOMAIN commit_authors : commit_authors[i] = e]

\* mutant: the map is read with a key it does not have
AuthorIDMissing(m, e) == 0

\* authorEmailIDMap[i.AuthorEmail]: 0 when the map has no such key
AuthorID(m, e) == IF e \in DOMAIN m THEN m[e] ELSE 0

\* the row InsertCommit appends to the stream for commit c
CommitRow(c, authorID, repoID) ==
    [hash |-> c.hash, author |-> authorID, repo |-> repoID, date |-> c.when]

RECURSIVE ForEachCommit(_, _, _)
ForEachCommit(l, m, repoID) ==
    IF l = <<>> THEN <<>>
    ELSE <<CommitRow(Head(l), AuthorID(m, Head(l).email), repoID)>>
             \o ForEachCommit(Tail(l), m, repoID)

\* a row of the stream has the (repo, hash) of a stored row
Conflicts(rows) ==
    \E i \in DOMAIN rows : \E c \in commits :
        c.repo = rows[i].repo /\ c.hash = rows[i].hash

\* the state of a transaction whose ResolveTransaction failed
ResolveFailed == "rolledback"

\* mutant: Done is not deferred
RunDeferredNever(n, h) == n

\* defer providedRepo.Done(): registered once FetchRepo has returned a handle
\* (h), it runs when processRepository returns
RunDeferred(n, h) == IF h THEN n + 1 ELSE n

\* mutant: every return reports success
ExitNil(w, at) ==
    /\ st' = [st EXCEPT ![w] = "idle"]
    /\ failedAt' = [failedAt EXCEPT ![w] = "nil"]
    /\ dones' = [dones EXCEPT ![w] = RunDeferred(@, fetched[w])]
    /\ lease' = IF provider = "cache" /\ dones'[w] > dones[w]
                THEN Unlock(lease, run[w].repoURL) ELSE lease
    /\ run' = [run EXCEPT ![w] = NoRun]
    /\ seq' = [seq EXCEPT ![w] = FALSE]
    /\ later' = [later EXCEPT ![w] = FALSE]

\* processRepository returns; at is the stage of the error, "nil" for none
Exit(w, at) ==
    /\ st' = [st EXCEPT ![w] = "idle"]
    /\ failedAt' = [failedAt EXCEPT ![w] = at]
    /\ dones' = [dones EXCEPT ![w] = RunDeferred(@, fetched[w])]
    /\ lease' = IF provider = "cache" /\ dones'[w] > dones[w]
                THEN Unlock(lease, run[w].repoURL) ELSE lease
    /\ run' = [run EXCEPT ![w] = NoRun]
    /\ seq' = [seq EXCEPT ![w] = FALSE]
    /\ later' = [later EXCEPT ![w] = FALSE]

\* the call goes on to its next stage
Goto(w, s) ==
    /\ st' = [st EXCEPT ![w] = s]
    /\ UNCHANGED <<provider, upstream, nruns, dones, failedAt, synced, seq>>
    /\ UNCHANGED <<cacheVars, bakeVars>>

\* history: what is known of a call when it begins
Begun(w, u) ==
    /\ nruns' = nruns + 1
    /\ txn' = [txn EXCEPT ![w] = "none"]
    /\ fetched' = [fetched EXCEPT ![w] = FALSE]
    /\ dones' = [dones EXCEPT ![w] = 0]
    /\ later' = [later EXCEPT ![w] = FALSE]

Stored(r, h) == \E c \in commits : c.repo = r /\ c.hash = h

\* history: every commit of the clone of w that has no row is later than
\* every stored commit_date of its repository
LaterThanStored(w) ==
    \A i \in 1..run[w].clone :
        \/ Stored(run[w].repoID, i)
        \/ \A c \in commits :
               c.repo = run[w].repoID =>
                   Before(c.date, CommitAt(run[w].repoURL, i).when)

\* processRepository(u) is called and GetRepositoryID returns the id of the
\* row of u, or sql.ErrNoRows
Enter(w, u) ==
    /\ st[w] = "idle" /\ nruns < MaxRuns
    /\ Begun(w, u)
    /\ run' = [run EXCEPT ![w] = [NoRun EXCEPT !.repoURL = u,
                                               !.repoID = GetRepositoryID(u)]]
    /\ st' = [st EXCEPT ![w] =
                 IF GetRepositoryID(u) = 0 THEN "insert" ELSE "fetch"]
    /\ failedAt' = [failedAt EXCEPT ![w] = ""]
    /\ seq' = [seq EXCEPT ![w] = synced[u]]
    /\ UNCHANGED <<provider, upstream, repos, commit_authors, commits,
                   tmpTables, counter, lease, synced>>
    /\ UNCHANGED cacheVars

\* processRepository(u) is called and GetRepositoryID returns another error
EnterFail(w, u) ==
    /\ st[w] = "idle" /\ nruns < MaxRuns
    /\ Begun(w, u)
    /\ failedAt' = [failedAt EXCEPT ![w] = "getid"]
    /\ seq' = [seq EXCEPT ![w] = FALSE]
    /\ UNCHANGED <<provider, upstream, repos, commit_authors, commits,
                   tmpTables, counter, lease, st, run, synced>>
    /\ UNCHANGED cacheVars

\* the two, called by anybody at any time
ProcessRepository(w, u) == Enter(w, u) /\ UNCHANGED bakeVars

GetRepositoryIDFail(w, u) == EnterFail(w, u) /\ UNCHANGED bakeVars

\* InsertRepository: a new row, unless git_url has it already
InsertRepository(w) ==
    /\ st[w] = "insert"
    /\ GetRepositoryID(run[w].repoURL) = 0
    /\ repos' = Append(repos, run[w].repoURL)
    /\ run' = [run EXCEPT ![w].repoID = Len(repos) + 1]
    /\ Goto(w, "fetch")
    /\ UNCHANGED <<commit_authors, commits, tmpTables, counter, lease, txn,
                   fetched, later>>

\* FetchRepo returns a handle: a clone of the upstream as it is now; the
\* cache-backed provider hands out the element locked, waiting for its lock
FetchRepo(w) ==
    /\ st[w] = "fetch"
    /\ upstream[run[w].repoURL] # <<>>
    /\ provider = "cache" => ~lease[run[w].repoURL]
    /\ lease' = IF provider = "cache"
                THEN [lease EXCEPT ![run[w].repoURL] = TRUE] ELSE lease
    /\ run' = [run EXCEPT ![w].clone = Len(upstream[run[w].repoURL])]
    /\ fetched' = [fetched EXCEPT ![w] = TRUE]
    /\ Goto(w, "head")
    /\ UNCHANGED <<repos, commit_authors, commits, tmpTables, counter, txn,
                   later>>

\* FetchRepo returns an error.  The cache-backed provider returns the error
\* of OpenAndFetch without calling Done on the element it holds (leak)
FetchRepoFail(w, leak) ==
    /\ st[w] = "fetch"
    /\ leak => provider = "cache" /\ ~lease[run[w].repoURL]
    /\ lease' = IF leak THEN [lease EXCEPT ![run[w].repoURL] = TRUE]
                ELSE lease
    /\ st' = [st EXCEPT ![w] = "idle"]
    /\ failedAt' = [failedAt EXCEPT ![w] = "fetch"]
    /\ run' = [run EXCEPT ![w] = NoRun]
    /\ seq' = [seq EXCEPT ![w] = FALSE]
    /\ UNCHANGED <<provider, upstream, repos, commit_authors, commits,
                   tmpTables, counter, txn, nruns, fetched, dones, synced,
                   later>>
    /\ UNCHANGED <<cacheVars, bakeVars>>

\* gitRepo.Head()
HeadOK(w) ==
    /\ st[w] = "head"
    /\ Goto(w, "last")
    /\ UNCHANGED <<repos, commit_authors, commits, tmpTables, counter, lease,
                   run, txn, fetched, later>>

\* GetLastCommit, and the nanosecond added to what it returns
LastCommit(w) ==
    /\ st[w] = "last"
    /\ run' = [run EXCEPT
                  ![w].since = AddNanosecond(GetLastCommit(run[w].repoID))]
    /\ later' = [later EXCEPT ![w] = LaterThanStored(w)]
    /\ Goto(w, "log")
    /\ UNCHANGED <<repos, commit_authors, commits, tmpTables, counter, lease,
                   txn, fetched>>

\* mutant: the increment is lost
AddInt64Lost(c, delta) == c

\* atomic.AddInt64(&counter, delta): the new value, in one step
AddInt64(c, delta) == c + delta

\* gitRepo.Log, the name of the temporary table from the counter, and
\* PrepareBulkAuthorInsert: the temporary table, a transaction, a stream
PrepareBulkAuthorInsert(w) ==
    /\ st[w] = "log"
    /\ counter' = AddInt64(counter, 1)
    /\ run' = [run EXCEPT ![w].tmpTableName = counter']
    /\ tmpTables' = CreateTmpTable(tmpTables, counter')
    /\ txn' = [txn EXCEPT ![w] = "open"]
    /\ Goto(w, "authors")
    /\ UNCHANGED <<repos, commit_authors, commits, lease, fetched, later>>

\* authorIter.ForEach
AuthorForEach(w) ==
    /\ st[w] = "authors"
    /\ run' = [run EXCEPT
                  ![w].uniqueAuthorEmails = ForEachAuthor(Yielded(w), <<>>)]
    /\ Goto(w, "resolve_authors")
    /\ UNCHANGED <<repos, commit_authors, commits, tmpTables, counter, lease,
                   txn, fetched, later>>

\* ResolveTransaction(authorTxn, authorStmt): the stream is flushed to the
\* temporary table and the transaction committed
ResolveAuthors(w) ==
    /\ st[w] = "resolve_authors"
    /\ tmpTables' = FlushAuthors(tmpTables, run[w].tmpTableName,
                                 run[w].uniqueAuthorEmails)
    /\ txn' = [txn EXCEPT ![w] = "committed"]
    /\ Goto(w, "pivot")
    /\ UNCHANGED <<repos, commit_authors, commits, counter, lease, run,
                   fetched, later>>

\* PivotTmpTableToAuthorsTable: pivot, then drop the temporary table
PivotTmpTableToAuthorsTable(w) ==
    /\ st[w] = "pivot"
    /\ commit_authors' = Pivot(commit_authors, tmpTables[run[w].tmpTableName])
    /\ tmpTables' = DropTmpTable(tmpTables, run[w].tmpTableName)
    /\ Goto(w, "ids")
    /\ UNCHANGED <<repos, commits, counter, lease, run, txn, fetched, later>>

\* GetAuthorIDs(uniqueAuthorEmails)
AuthorIDs(w) ==
    /\ st[w] = "ids"
    /\ run' = [run EXCEPT
                  ![w].authorEmailIDMap =
                      GetAuthorIDs(run[w].uniqueAuthorEmails)]
    /\ Goto(w, "log2")
    /\ UNCHANGED <<repos, commit_authors, commits, tmpTables, counter, lease,
                   txn, fetched, later>>

\* gitRepo.Log again and PrepareBulkCommitInsert: a transaction, a stream
PrepareBulkCommitInsert(w) ==
    /\ st[w] = "log2"
    /\ txn' = [txn EXCEPT ![w] = "open"]
    /\ Goto(w, "commits")
    /\ UNCHANGED <<repos, commit_authors, commits, tmpTables, counter, lease,
                   run, fetched, later>>

\* commitIter.ForEach
CommitForEach(w) ==
    /\ st[w] = "commits"
    /\ run' = [run EXCEPT
                  ![w].stream = ForEachCommit(Yielded(w),
                                              run[w].authorEmailIDMap,
                                              run[w].repoID)]
    /\ Goto(w, "resolve_commits")
    /\ UNCHANGED <<repos, commit_authors, commits, tmpTables, counter, lease,
                   txn, fetched, later>>

\* ResolveTransaction(commitTxn, commitStmt) commits the rows of the stream,
\* and processRepository returns nil
ResolveCommits(w) ==
    /\ st[w] = "resolve_commits"
    /\ ~Conflicts(run[w].stream)
    /\ commits' = FlushCommits(commits, run[w].stream)
    /\ txn' = [txn EXCEPT ![w] = "committed"]
    /\ synced' = [synced EXCEPT ![run[w].repoURL] =
                     @ \/ run[w].clone = Len(upstream[run[w].repoURL])]
    /\ Exit(w, "nil")
    /\ UNCHANGED <<provider, upstream, repos, commit_authors, tmpTables,
                   counter, nruns, fetched>>
    /\ UNCHANGED <<cacheVars, bakeVars>>

\* the stages whose step can return an error, which processRepository returns
ErrStages ==
    {"insert", "head", "last", "log", "authors", "resolve_authors", "pivot",
     "ids", "log2", "commits", "resolve_commits"}

\* return err: nothing but the deferred Done runs.  A ResolveTransaction that
\* fails has rolled its transaction back
ReturnErr(w) ==
    /\ st[w] \in ErrStages
    /\ txn' = [txn EXCEPT ![w] =
                  IF st[w] \in {"resolve_authors", "resolve_commits"}
                  THEN ResolveFailed ELSE @]
    /\ Exit(w, st[w])
    /\ UNCHANGED <<provider, upstream, repos, commit_authors, commits,
                   tmpTables, counter, nruns, fetched, synced>>
    /\ UNCHANGED <<cacheVars, bakeVars>>

NumCommits ==
    Cardinality({c \in Repos \X (1..MaxCommits) : c[2] <= Len(upstream[c[1]])})

\* somebody pushes a commit of author e, committed at t, to the upstream of u
UpstreamPush(u, e, t) ==
    /\ NumCommits < MaxCommits
    /\ upstream' = [upstream EXCEPT ![u] = Append(@, [email |-> e, when |-> t])]
    /\ synced' = [synced EXCEPT ![u] = FALSE]
    /\ seq' = [w \in Workers |-> seq[w] /\ run[w].repoURL # u]
    /\ UNCHANGED <<provider, repos, commit_authors, commits, tmpTables,
                   counter, lease, st, run, txn, nruns, fetched, dones,
                   failedAt, later>>
    /\ UNCHANGED <<cacheVars, bakeVars>>

InitIngest ==
    /\ lock = 0
    /\ dll = <<>>
    /\ hm = [k \in Keys |-> NoElem]
    /\ elock = [k \in Keys |-> FALSE]
    /\ disk = [p \in Paths |-> "absent"]
    /\ other = 0
    /\ minFreeDiskGb = 0
    /\ pc = [w \in Workers |-> "idle"]
    /\ op = [w \in Workers |-> "none"]
    /\ key = [w \in Workers |-> 0]
    /\ got = [w \in Workers |-> NoElem]
    /\ ncalls = 0
    /\ mode = "fetch"
    /\ last = ""
    /\ putDone = NoPut
    /\ tight = TRUE
    /\ ret = [w \in Workers |-> NoRet]
    /\ clones = 0
    /\ newc = NoCall
    /\ provider \in {"cache", "memory"}
    /\ NoIngestion
    /\ NoRequest

NextIngest ==
    \/ \E w \in Workers, u \in Repos : ProcessRepository(w, u)
    \/ \E w \in Workers, u \in Repos : GetRepositoryIDFail(w, u)
    \/ \E w \in Workers : InsertRepository(w)
    \/ \E w \in Workers : FetchRepo(w)
    \/ \E w \in Workers, leak \in BOOLEAN : FetchRepoFail(w, leak)
    \/ \E w \in Workers : HeadOK(w)
    \/ \E w \in Workers : LastCommit(w)
    \/ \E w \in Workers : PrepareBulkAuthorInsert(w)
    \/ \E w \in Workers : AuthorForEach(w)
    \/ \E w \in Workers : ResolveAuthors(w)
    \/ \E w \in Workers : PivotTmpTableToAuthorsTable(w)
    \/ \E w \in Workers : AuthorIDs(w)
    \/ \E w \in Workers : PrepareBulkCommitInsert(w)
    \/ \E w \in Workers : CommitForEach(w)
    \/ \E w \in Workers : ResolveCommits(w)
    \/ \E w \in Workers : ReturnErr(w)
    \/ \E u \in Repos, e \in Emails, t \in 1..MaxTime : UpstreamPush(u, e, t)

SpecIngest == InitIngest /\ [][NextIngest]_vars

\* ====================================================== claims (pipeline)
\* the stages of a call after its author pass / after its pivot
Staged == {"resolve_authors", "pivot", "ids", "log2", "commits",
           "resolve_commits"}

Pivoted == {"ids", "log2", "commits", "resolve_commits"}

\* the stages at which a bulk transaction is open or being resolved
InTxn == {"authors", "resolve_authors", "commits", "resolve_commits"}

RowsOf(table, e) == {i \in DOMAIN table : table[i] = e}

FirstSeen(l, e) == CHOOSE i \in DOMAIN l : l[i].email = e /\ \A j \in 1..(i - 1) : l[j].email # e

\* C13: once FetchRepo has returned a handle to a processRepository call, Done
\* is called on it exactly once by the time the call has returned, at whatever
\* stage it returns, and not before; without a handle Done is not called.
C13_DoneExactlyOnce ==
    \A w \in Workers :
        /\ st[w] # "idle" => dones[w] = 0
        /\ (st[w] = "idle" /\ fetched[w]) => dones[w] = 1
        /\ ~fetched[w] => dones[w] = 0

W_C13 ==
    \E w \in Workers :
        st[w] = "idle" /\ fetched[w] /\ dones[w] = 1 /\ failedAt[w] = "commits"

\* C14: when processRepository returns an error after a bulk transaction was
\* opened and before it was resolved, the transaction is not left open and
\* none of its rows has reached a table.
C14_RolledBack ==
    [][\A w \in Workers :
          (st[w] \in InTxn /\ st'[w] = "idle" /\ failedAt'[w] # "nil") =>
              /\ txn'[w] # "open"
              /\ commits' = commits
              /\ tmpTables' = tmpTables]_vars

\* C17: a processRepository call that begins after a call on the same URL has
\* returned nil, with the upstream unchanged in between, yields no commit in
\* its walks and none of its steps changes repos, commit_authors or commits.
C17_SecondRunChangesNothing ==
    [][\A w \in Workers :
          seq[w] =>
              /\ st'[w] # st[w] =>
                     /\ repos' = repos
                     /\ commit_authors' = commit_authors
                     /\ commits' = commits
              /\ st[w] \in {"log", "authors"} \cup Staged =>
                     Yielded(w) = <<>>]_vars

W_C17 ==
    \E w \in Workers :
        /\ seq[w] /\ st[w] = "resolve_commits"
        /\ \E c \in commits : c.repo = run[w].repoID

\* C18: when a call returns nil, and every commit of its clone without a row
\* was later than every stored commit_date of the repository when the call
\* read the latest one, then repos has one row for the URL, every commit of
\* the clone has exactly one row in commits, with the id of the repository,
\* the id of the commit_authors row of its author email and its committer
\* time, and no row that was in commits has changed.
C18_OneRowPerCommit ==
    [][\A w \in Workers :
          (st[w] = "resolve_commits" /\ failedAt'[w] = "nil" /\ later[w]) =>
              /\ Cardinality(RowsOf(repos', run[w].repoURL)) = 1
              /\ \A i \in 1..run[w].clone :
                     \E c \in commits' :
                         /\ c.repo = run[w].repoID /\ c.hash = i
                         /\ \A d \in commits' :
                                (d.repo = c.repo /\ d.hash = i) => d = c
                         /\ c.author \in DOMAIN commit_authors'
                         /\ commit_authors'[c.author]
                                = CommitAt(run[w].repoURL, i).email
                         /\ c.date = CommitAt(run[w].repoURL, i).when
              /\ commits \subseteq commits']_vars

W_C18 ==
    \E w \in Workers :
        /\ st[w] = "resolve_commits" /\ later[w]
        /\ run[w].stream # <<>>
        /\ ~Conflicts(run[w].stream)
        /\ \E c \in commits : c.repo = run[w].repoID

\* C19: after the author pass of a call uniqueAuthorEmails (the emails sent to
\* the stream) holds every author email of the yielded commits once, in the
\* order in which the walk first met them, and after its pivot each of them
\* has exactly one row in commit_authors, a table that never holds an email
\* twice.
C19_EachEmailOnce ==
    /\ \A e \in Emails : Cardinality(RowsOf(commit_authors, e)) <= 1
    /\ \A w \in Workers :
           LET emails == run[w].uniqueAuthorEmails
           IN  /\ st[w] \in Staged =>
                     /\ Range(emails) = {c.email : c \in Range(Yielded(w))}
                     /\ \A i, j \in DOMAIN emails :
                            i < j => /\ emails[i] # emails[j]
                                     /\ FirstSeen(Yielded(w), emails[i])
                                            < FirstSeen(Yielded(w), emails[j])
               /\ st[w] \in Pivoted =>
                     \A e \in Range(emails) :
                         Cardinality(RowsOf(commit_authors, e)) = 1

W_C19 ==
    \E w \in Workers :
        /\ st[w] = "ids"
        /\ Len(run[w].uniqueAuthorEmails) < Len(Yielded(w))

\* C20: every row appended to the commit stream of a call carries the id of
\* a commit_authors row (never 0): the email of every yielded commit is a key
\* of authorEmailIDMap; and no row of commits has author id 0.
C20_NoAuthorMiss ==
    /\ \A c \in commits : c.author # 0
    /\ \A w \in Workers :
           /\ st[w] \in {"commits", "resolve_commits"} =>
                 \A c \in Range(Yielded(w)) :
                     c.email \in DOMAIN run[w].authorEmailIDMap
           /\ \A i \in DOMAIN run[w].stream : run[w].stream[i].author # 0

W_C20 ==
    \E w, x \in Workers :
        /\ st[w] = "resolve_commits" /\ run[w].stream # <<>>
        /\ st[x] # "idle" /\ run[x].repoURL # run[w].repoURL

\* the stage of the pipeline a call is in: 0 Start, 1 RepoEnsured (the id of
\* the repository is known), 2 RepoFetched, 3 AuthorsStaged (the author
\* transaction is committed), 4 AuthorsPivoted
Phase(s) ==
    CASE s = "insert" -> 0
      [] s = "fetch" -> 1
      [] s \in {"head", "last", "log", "authors", "resolve_authors"} -> 2
      [] s = "pivot" -> 3
      [] s \in Pivoted -> 4

\* C21: every step of a call keeps its stage or moves it to the next one, in
\* the order Start, RepoEnsured, RepoFetched, AuthorsStaged, AuthorsPivoted;
\* the call returns nil (CommitsWritten, Done) only from the last stage, with
\* the commit transaction committed, and every other return reports the error
\* of its stage (Failed).  The pivot runs with the author transaction
\* committed, the author-id lookup with the temporary table pivoted and
\* dropped, and the commit transaction is opened with the ids looked up.
C21_StagesInOrder ==
    [][\A w \in Workers :
          /\ (st[w] = "idle" /\ st'[w] # "idle") => Phase(st'[w]) <= 1
          /\ (st[w] # "idle" /\ st'[w] # st[w]) =>
                \/ /\ st'[w] # "idle"
                   /\ Phase(st'[w]) \in {Phase(st[w]), Phase(st[w]) + 1}
                \/ /\ st'[w] = "idle" /\ failedAt'[w] = "nil"
                   /\ st[w] = "resolve_commits" /\ txn'[w] = "committed"
                \/ /\ st'[w] = "idle" /\ failedAt'[w] = st[w]
                   /\ st[w] \in ErrStages \cup {"fetch"}
          /\ (st[w] = "pivot" /\ st'[w] = "ids") =>
                /\ txn[w] = "committed"
                /\ tmpTables[run[w].tmpTableName] = run[w].uniqueAuthorEmails
          /\ (st[w] = "ids" /\ st'[w] = "log2") =>
                /\ run[w].tmpTableName \notin DOMAIN tmpTables
                /\ Range(run[w].uniqueAuthorEmails) \subseteq
                       Range(commit_authors)
          /\ (st[w] = "log2" /\ txn'[w] = "open") =>
                Range(run[w].uniqueAuthorEmails) \subseteq
                    DOMAIN run[w].authorEmailIDMap]_vars

W_C21 ==
    \E w, x \in Workers :
        /\ st[w] = "idle" /\ failedAt[w] = "nil" /\ txn[w] = "committed"
        /\ commits # {}
        /\ st[x] = "idle" /\ failedAt[x] = "pivot"

\* the temporary-table names in use: those of the calls and of the tables
NamesInUse ==
    {run[w].tmpTableName : w \in Workers} \cup DOMAIN tmpTables

\* C22: the name a call synthesizes for its temporary table was given to no
\* call before: it is not among the values the counter has taken, which
\* include the name of every other call, running or returned, and of every
\* temporary table; so two calls never have the same name, in whatever order
\* their steps interleave.
C22_DistinctTmpTableNames ==
    [][/\ NamesInUse \subseteq 0..counter
       /\ \A w, x \in Workers :
             (w # x /\ run[w].tmpTableName # 0) =>
                 run[w].tmpTableName # run[x].tmpTableName
       /\ \A w \in Workers :
             (st[w] = "log" /\ st'[w] = "authors") =>
                 /\ run'[w].tmpTableName \notin 0..counter
                 /\ run'[w].tmpTableName \notin NamesInUse
                 /\ run'[w].tmpTableName \in DOMAIN tmpTables']_vars

W_C22 ==
    \E w, x \in Workers :
        /\ w # x
        /\ st[w] = "authors" /\ st[x] = "authors"
        /\ run[w].tmpTableName # 0 /\ run[x].tmpTableName # 0

\* m is l with e moved to the front: the other elements keep their order
MovedToFront(l, m, e) ==
    /\ Len(m) = Len(l)
    /\ m[1] = e
    /\ \A i, j \in Len0(l) :
          (i < j /\ l[i] # e /\ l[j] # e) =>
              \E a, b \in Len0(m) : a < b /\ m[a] = l[i] /\ m[b] = l[j]

\* m is l with e put in front of it
InsertedAtFront(l, m, e) ==
    /\ Len(m) = Len(l) + 1
    /\ m[1] = e
    /\ \A i \in Len0(l) : m[i + 1] = l[i]

\* the step is a hit of Get or Put by worker w / the insertion of a Put miss
HitStep(w) == pc[w] \in {"idle", "put_call"} /\ pc'[w] \in {"get_lease", "put_lease"}

InsertStep(w) == pc[w] = "evict" /\ pc'[w] = "stat"

\* C23: a step that evicts nothing orders dll by recency of access: the
\* insertion of a Put miss puts the new element in front of the others, a hit
\* of Get or Put moves the element of its key to the front, the other elements
\* keep their order, and no other step changes dll.
C23_OrderedByRecency ==
    [][\A w \in Workers :
          /\ HitStep(w) =>
                /\ key'[w] \in KeysOf(dll)
                /\ dll'[1].key = key'[w]
                /\ MovedToFront(dll, dll', dll'[1])
          /\ InsertStep(w) =>
                /\ key[w] \notin KeysOf(dll)
                /\ dll'[1].key = key[w]
                /\ InsertedAtFront(dll, dll', dll'[1])
          /\ (\A x \in Workers : ~HitStep(x) /\ ~InsertStep(x) /\ ~EvictStep(x))
                => dll' = dll]_vars

W_C23 ==
    \E w, x \in Workers :
        /\ ~Evicted /\ ncalls = MaxCalls
        /\ pc[w] = "get_lease" /\ Len(dll) = 2 /\ dll[1].key = key[w]
        /\ pc[x] = "held" /\ got[x] = dll[2]

\* the step is one of a Get of worker w that found its key
GetStep(w) ==
    \/ pc[w] = "idle" /\ pc'[w] = "get_lease"
    \/ pc[w] = "get_lease" /\ pc'[w] # "get_lease"

\* C24: a Get (called directly or by FetchRepo) of a key that is not in hm
\* returns nil with c.lock free and changes neither hm, dll, the disk nor any
\* element's lock; a key that is in hm is never reported missing; no step of a
\* Get that found its key removes an element or touches the disk; and a
\* worker inside Get is never inside tryEvict.
C24_GetMissChangesNothing ==
    [][/\ \A w \in Workers, k \in Keys, o \in {"Get", "Fetch"} :
             GetMiss(w, k, o) =>
                 /\ k \notin KeysOf(dll) /\ ~Present(hm, k)
                 /\ last' = "nil"
                 /\ lock' = 0
                 /\ hm' = hm /\ dll' = dll /\ disk' = disk /\ elock' = elock
                 /\ o = "Get" => pc'[w] = "idle"
       /\ \A w \in Workers :
             /\ GetStep(w) =>
                   /\ KeysOf(dll') = KeysOf(dll) /\ Len(dll') = Len(dll)
                   /\ hm' = hm /\ disk' = disk
                   /\ pc'[w] \in {"get_lease", "held", "open"}
             /\ op[w] = "Get" => pc[w] \in {"get_lease", "held"}]_vars

W_C24 ==
    \E w \in Workers :
        /\ last = "nil" /\ mode = "calls"
        /\ Len(dll) = 2
        /\ pc[w] = "clone"

\* the volume cannot provide the budget even to an empty cache
Unmeetable == BudgetViolated(Capacity(other), minFreeDiskGb)

NonePinned(l) == \A i \in Len0(l) : ~IsPinned(l[i].key)

NoneLeased(l) == \A i \in Len0(l) : ~elock[l[i].key]

\* C25: while the budget cannot be met and dll holds neither a pinned nor a
\* leased element, a worker inside tryEvict is not made to wait and its walk
\* does not fail; every eviction step with no pinned element in dll takes the
\* back element, which leaves hm and dll, its path no longer on the disk, and
\* makes dll one shorter; the only error tryEvict then returns is that of
\* Statfs; and when tryEvict returns nil under a budget that cannot be met,
\* hm and dll are empty.
C25_EvictsTailUntilEmpty ==
    [][\A w \in Workers :
          /\ (pc[w] = "evict" /\ Unmeetable /\ dll # <<>>
                 /\ NonePinned(dll) /\ NoneLeased(dll)) =>
                /\ BudgetViolated(FreeBytes(disk, other), minFreeDiskGb)
                /\ ~WalkFails(dll)
                /\ CanLock(Victim(dll).key)
          /\ (pc[w] = "evict" /\ pc'[w] = "evict" /\ dll' # dll
                 /\ NonePinned(dll)) =>
                /\ dll' = SubSeq(dll, 1, Len(dll) - 1)
                /\ ~Present(hm', dll[Len(dll)].key)
                /\ ~StatOK(disk', dll[Len(dll)].path)
                /\ \A k \in KeysOf(dll') : hm'[k] = hm[k]
          /\ (pc[w] = "evict" /\ pc'[w] = "idle" /\ NonePinned(dll)) =>
                last' = "err_statfs"
          /\ (InsertStep(w) /\ Unmeetable) =>
                /\ dll = <<>>
                /\ \A k \in Keys : ~Present(hm, k)]_vars

W_C25 ==
    \E w \in Workers :
        /\ pc[w] = "evict" /\ Unmeetable
        /\ dll = <<>>
        /\ Cardinality({k \in Keys : elock[k] /\ ~Present(hm, k)}) = 2
        /\ \A p \in Paths : disk[p] = "absent"

\* the step is the return of a Put of worker w that got past tryEvict
PutEnds(w) ==
    \/ PutReturns(w)
    \/ pc[w] \in {"stat", "clone"} /\ pc'[w] = "idle"

\* C26: when Get and Put are called directly, each caller releasing what it
\* was handed, every call returns; a step that is not an eviction removes no
\* key from dll; the only step that adds a key is the insertion of a Put,
\* which adds the key of that Put; and when a Put that got past tryEvict
\* returns, its key is in hm and at exactly one position of dll.
C26_ConcurrentPutsAndGets ==
    /\ [][\A w \in Workers :
             /\ (\A x \in Workers : ~EvictStep(x)) =>
                    KeysOf(dll) \subseteq KeysOf(dll')
             /\ KeysOf(dll') # KeysOf(dll) /\ KeysOf(dll) \subseteq KeysOf(dll')
                    => \E x \in Workers :
                           /\ InsertStep(x) /\ op[x] \in {"Put", "Fetch"}
                           /\ KeysOf(dll') = KeysOf(dll) \cup {key[x]}
             /\ PutEnds(w) =>
                    /\ Present(hm', key[w])
                    /\ Cardinality({i \in Len0(dll') : dll'[i].key = key[w]}) = 1
             /\ Len(dll') = Cardinality(KeysOf(dll'))]_vars
    /\ \A w \in Workers :
           (mode = "calls" /\ pc[w] # "idle") ~> (pc[w] = "idle")

W_C26 ==
    /\ mode = "calls" /\ ~Evicted
    /\ ncalls = MaxCalls
    /\ \A w \in Workers : pc[w] = "idle"
    /\ Len(dll) = 2
    /\ KeysOf(dll) = {k \in Keys : Present(hm, k)}
    /\ last = ""

\* ==================================================== NewGitRepoLRUCache
\* the budgets handed to the constructor: small ones, and the same ones
\* beyond the point at which their product in bytes leaves 64 bits
MaxGbs == 2

Budgets == (0..MaxGbs) \cup {Wrap + n : n \in 0..MaxGbs}

\* the directories handed to the constructor: the cache directory, written
\* with or without a trailing "/"
Dirs == {<<-1>>, <<-1, 0>>}

\* freeSpace <= minFreeBytes
OutOfSpace(free, gbs) == free <= MinFreeBytes(gbs)

\* the constructor is about to be called: stat tells whether os.Stat finds
\* the directory, statfs whether syscall.Statfs succeeds on it
InitNew ==
    /\ lock = 0
    /\ dll = <<>>
    /\ hm = [k \in Keys |-> NoElem]
    /\ elock = [k \in Keys |-> FALSE]
    /\ disk \in [Paths -> {"absent", "repo"}]
    /\ other \in 0..DiskSize
    /\ FreeBytes(disk, other) >= 0
    /\ minFreeDiskGb = 0
    /\ pc = [w \in Workers |-> "idle"]
    /\ op = [w \in Workers |-> "none"]
    /\ key = [w \in Workers |-> 0]
    /\ got = [w \in Workers |-> NoElem]
    /\ ncalls = 0
    /\ mode = "calls"
    /\ last = ""
    /\ putDone = NoPut
    /\ tight = TRUE
    /\ ret = [w \in Workers |-> NoRet]
    /\ clones = 0
    /\ newc \in {[NoCall EXCEPT !.dir = d, !.minFreeGbs = g, !.stat = a,
                                !.statfs = b] :
                    d \in Dirs, g \in Budgets, a \in BOOLEAN, b \in BOOLEAN}
    /\ newc.statfs => newc.stat
    /\ newc.stat \/ \A p \in Paths : disk[p] = "absent"
    /\ provider = "cache"
    /\ NoIngestion
    /\ NoRequest

\* what the constructor returns
NewError ==
    IF ~newc.stat THEN "err_stat"
    ELSE IF ~newc.statfs THEN "err_statfs"
    ELSE IF OutOfSpace(FreeBytes(disk, other), newc.minFreeGbs)
         THEN "err_space"
    ELSE "nil"

NewCache ==
    [minFreeDiskGb |-> newc.minFreeGbs, dir |-> Clean(newc.dir),
     dll |-> <<>>, hm |-> <<>>]

NewGitRepoLRUCache ==
    /\ newc.err = "none"
    /\ newc' = [newc EXCEPT !.err = NewError,
                            !.c = IF NewError = "nil" THEN NewCache
                                  ELSE NoCache]
    /\ minFreeDiskGb' = IF NewError = "nil" THEN newc.minFreeGbs
                        ELSE minFreeDiskGb
    /\ UNCHANGED <<lock, dll, hm, elock, disk, other, pc, op, key, got,
                   ncalls, mode, last, putDone, tight, ret, clones>>
    /\ UNCHANGED <<ingestVars, bakeVars>>

NextNew == NewGitRepoLRUCache

SpecNew == InitNew /\ [][NextNew]_vars

\* the budget in bytes as a number, in units: the true product
TrueProduct(gbs) == gbs

\* C27: the constructor returns an error when os.Stat does not find the
\* directory and when the free bytes of its volume are at most the budget
\* times 2^30, and otherwise (unless Statfs itself fails) a cache with the
\* given directory, an empty hm and an empty dll.
C27_ConstructorContract ==
    newc.err # "none" =>
        /\ ~newc.stat => newc.err # "nil"
        /\ (newc.stat /\ newc.statfs
               /\ FreeBytes(disk, other) <= TrueProduct(newc.minFreeGbs))
              => newc.err # "nil"
        /\ (newc.stat /\ newc.statfs
               /\ FreeBytes(disk, other) > TrueProduct(newc.minFreeGbs))
              => /\ newc.err = "nil"
                 /\ newc.c.dir = Clean(newc.dir)
                 /\ newc.c.hm = <<>> /\ newc.c.dll = <<>>

\* C28: a Put miss that finds a repository at its path returns its element
\* without a clone and without touching the disk; one that finds the path
\* taken by something that is not a repository removes it with everything
\* below, makes the directory anew and goes on to clone into it (or returns
\* the error of MkdirAll); a Put returns from its check of the directory only
\* if a repository is there; and all of this, clone included, runs with the
\* lock of the element taken at insertion and without c.lock.
C28_AdoptOrReclone ==
    [][\A w \in Workers :
          LET p == PathKey(key[w])
          IN  /\ pc[w] \in {"stat", "clone"} =>
                    /\ elock[key[w]] /\ lock # w
                    /\ Lookup(hm, key[w]) = NewElement(key[w])
              /\ (pc[w] = "stat" /\ pc'[w] # "stat" /\ disk[p] = "repo") =>
                    /\ pc'[w] \in {"held", "open"}
                    /\ got'[w] = NewElement(key[w])
                    /\ disk' = disk /\ clones' = clones
                    /\ elock'[key[w]]
              /\ (pc[w] = "stat" /\ pc'[w] # "stat" /\ disk[p] # "repo") =>
                    /\ \A q \in Paths :
                           (q # p /\ IsPrefix(p, q)) => disk'[q] = "absent"
                    /\ \/ pc'[w] = "clone" /\ disk'[p] = "dir"
                       \/ /\ pc'[w] = "idle" /\ last' = "err_mkdir"
                          /\ disk'[p] = "absent"
              /\ (pc[w] = "clone" /\ pc'[w] \in {"held", "open"}) =>
                    /\ disk[p] # "repo" /\ disk'[p] = "repo"
                    /\ got'[w] = NewElement(key[w])
                    /\ elock'[key[w]] /\ lock' # w]_vars

W_C28 ==
    \E w, x \in Workers :
        /\ mode = "put2" /\ clones = 0
        /\ pc[w] = "held" /\ ret[w].r = "entry"
        /\ disk[got[w].path] = "repo"
        /\ pc[x] = "put_lease"

\* ======================================================== POST /bake
\* A URL string is its scheme and the segments of its path, as for the keys
\* of the cache (0: the empty segment a trailing "/" leaves); the URL with
\* which the pipeline is called is the repository URL of that path
\* strings.TrimSuffix(path, "/")
TrimSlash(p) ==
    IF p # <<>> /\ p[Len(p)] = 0 THEN SubSeq(p, 1, Len(p) - 1) ELSE p

\* the segment ".git" stands for that suffix of the segment before it
DotGit == -2

\* strings.TrimSuffix(path, ".git")
TrimDotGit(p) ==
    IF p # <<>> /\ p[Len(p)] = DotGit THEN SubSeq(p, 1, Len(p) - 1) ELSE p

\* NormalizeGitURL returns an error: the scheme is none of git, https, file
NormalizeErr(scheme, p) == scheme \notin {"git", "https", "file"}

\* NormalizeGitURL: the path of the URL it returns
NormalizeGitURL(p) == TrimDotGit(TrimSlash(p))

\* the repository URL with path p
RepoOf(p) == CHOOSE r \in Repos : Url(r) = p

\* what ListReposByOrg returns: at most one repository per goroutine, each
\* with its html_url and its Archived field, a pointer (addr) to a bool (val)
Listings ==
    {l \in UNION {[1..n -> [url : Repos, addr : 1..NumWorkers,
                            val : BOOLEAN]] : n \in 0..NumWorkers} :
        \A i, j \in DOMAIN l :
            /\ l[i].addr = i
            /\ i < j => l[i].url < l[j].url}

\* falseVal, the local variable of FilterArchivedRepos: a bool of its own
FalseVal == [addr |-> 0, val |-> FALSE]

\* FilterArchivedRepos keeps the repositories whose Archived pointer is not
\* the address of falseVal
FilterArchivedRepos(l) == SelectSeq(l, LAMBDA r : r.addr # FalseVal.addr)

\* GetRepoHTMLUrls: the html_url of every repository that has one
GetRepoHTMLUrls(l) ==
    LET some == SelectSeq(l, LAMBDA r : r.url # 0)
    IN  [i \in DOMAIN some |-> some[i].url]

\* processOrg returns an error: the host is not github.com, or the listing
\* fails
ProcessOrgErr(r) == r.org # "github.com" \/ r.listErr

\* processOrg: the URLs it returns
ProcessOrg(r) ==
    GetRepoHTMLUrls(IF ~r.archives THEN FilterArchivedRepos(r.list)
                    ELSE r.list)

\* ResponseWriter.WriteHeader: the first status code written is the one sent
WriteHeader(s, code) == IF s = 0 THEN code ELSE s

\* http.Error(w, message, code) writes the code with WriteHeader
HttpError(s, code) == WriteHeader(s, code)

\* the status code with which handleRequest rejects the request, 0 for none:
\* the method, the body, NormalizeGitURL(data.URL), IsValidGitRepo
Rejected(r) ==
    IF r.method # "POST" THEN 405
    ELSE IF r.body # "json" THEN 400
    ELSE IF NormalizeErr(r.scheme, r.url) THEN 400
    ELSE IF ~r.reach THEN 400
    ELSE 0

\* the requests: url "" has neither scheme nor path
Requests ==
    {r \in [method : {"POST", "GET"}, body : {"json", "garbage"},
            scheme : {"", "http", "https"},
            url : {<<>>} \cup {Url(u) : u \in Repos},
            org : {"", "github.com", "example.com"},
            wait : BOOLEAN, archives : BOOLEAN, reach : BOOLEAN,
            listErr : BOOLEAN, list : Listings] :
        /\ (r.scheme = "") = (r.url = <<>>)
        /\ r.body = "garbage" =>
              /\ r.url = <<>> /\ r.org = "" /\ ~r.wait /\ ~r.archives
        /\ r.method = "GET" => r.body = "garbage"
        /\ r.url = <<>> => ~r.reach
        /\ r.org # "github.com" => ~r.listErr
        /\ (r.org # "github.com" \/ r.listErr) => r.list = <<>>}

\* the status code has been written with WriteHeader(http.StatusAccepted)
Accepted == WriteHeader(status, 202)

\* the handler leaves the stage it is in
Handled(next) ==
    /\ hpc' = next
    /\ UNCHANGED <<req, handed, norm>>
    /\ UNCHANGED <<cacheVars, ingestVars>>

\* handleRequest answers 405 or 400 and returns
BakeReject ==
    /\ hpc = "start"
    /\ Rejected(req) # 0
    /\ status' = HttpError(status, Rejected(req))
    /\ Handled("done")
    /\ UNCHANGED <<todo, spawned>>

\* processOrg fails: http.Error after the header was written
BakeOrgFail ==
    /\ hpc = "start"
    /\ Rejected(req) = 0
    /\ req.org # "" /\ ProcessOrgErr(req)
    /\ status' = HttpError(Accepted, 500)
    /\ Handled("done")
    /\ UNCHANGED <<todo, spawned>>

\* wait, org: the loop over cloneUrls begins
BakeWaitOrg ==
    /\ hpc = "start"
    /\ Rejected(req) = 0
    /\ req.wait /\ req.org # "" /\ ~ProcessOrgErr(req)
    /\ status' = Accepted
    /\ todo' = ProcessOrg(req)
    /\ Handled("loop")
    /\ UNCHANGED spawned

\* wait, no org: processRepository(data.URL), called by the handler itself
BakeWaitUrl ==
    /\ hpc = "start"
    /\ Rejected(req) = 0
    /\ req.wait /\ req.org = ""
    /\ status' = Accepted
    /\ spawned' = [spawned EXCEPT ![1] = RepoOf(req.url)]
    /\ Handled("running")
    /\ UNCHANGED todo

\* no wait, org: one goroutine per URL; the handler then reads errors, not
\* synchronised with the goroutines, and returns (an http.Error at this point
\* cannot change the status code written)
BakeAsyncOrg ==
    /\ hpc = "start"
    /\ Rejected(req) = 0
    /\ ~req.wait /\ req.org # "" /\ ~ProcessOrgErr(req)
    /\ status' = Accepted
    /\ spawned' = [w \in Workers |->
                      IF w <= Len(ProcessOrg(req)) THEN ProcessOrg(req)[w]
                      ELSE 0]
    /\ Handled("done")
    /\ UNCHANGED todo

\* no wait, no org: a goroutine calls
\* processRepository(repoURLendpoint.String()), the handler returns
BakeAsyncUrl ==
    /\ hpc = "start"
    /\ Rejected(req) = 0
    /\ ~req.wait /\ req.org = ""
    /\ status' = Accepted
    /\ spawned' = [spawned EXCEPT ![1] = RepoOf(NormalizeGitURL(req.url))]
    /\ Handled("done")
    /\ UNCHANGED todo

\* the call of worker w has returned
HasReturned(w) == spawned[w] = 0 /\ st[w] = "idle"

\* the loop of the waiting handler: the next cloneUrl
LoopCall ==
    /\ hpc = "loop"
    /\ todo # <<>>
    /\ HasReturned(1)
    /\ spawned' = [spawned EXCEPT ![1] = Head(todo)]
    /\ todo' = Tail(todo)
    /\ Handled("loop")
    /\ UNCHANGED status

\* the loop ends and the handler returns: no error of the calls is looked at
LoopEnd ==
    /\ hpc = "loop"
    /\ todo = <<>>
    /\ HasReturned(1)
    /\ Handled("done")
    /\ UNCHANGED <<status, todo, spawned>>

\* processRepository(data.URL) has returned to the waiting handler: http.Error
\* if it returned an error
WaitReturn ==
    /\ hpc = "running"
    /\ HasReturned(1)
    /\ status' = IF failedAt[1] # "nil" THEN HttpError(status, 500)
                 ELSE status
    /\ Handled("done")
    /\ UNCHANGED <<todo, spawned>>

\* worker w calls processRepository with the URL it was given
Dispatched(w, u) ==
    /\ u # 0 /\ spawned[w] = u
    /\ spawned' = [spawned EXCEPT ![w] = 0]
    /\ handed' = Append(handed, u)
    /\ UNCHANGED <<req, hpc, status, todo, norm>>

BakeProcessRepository(w, u) == Dispatched(w, u) /\ Enter(w, u)

BakeGetRepositoryIDFail(w, u) == Dispatched(w, u) /\ EnterFail(w, u)

\* a request has arrived; every upstream has one commit
InitBake ==
    /\ lock = 0
    /\ dll = <<>>
    /\ hm = [k \in Keys |-> NoElem]
    /\ elock = [k \in Keys |-> FALSE]
    /\ disk = [p \in Paths |-> "absent"]
    /\ other = 0
    /\ minFreeDiskGb = 0
    /\ pc = [w \in Workers |-> "idle"]
    /\ op = [w \in Workers |-> "none"]
    /\ key = [w \in Workers |-> 0]
    /\ got = [w \in Workers |-> NoElem]
    /\ ncalls = 0
    /\ mode = "fetch"
    /\ last = ""
    /\ putDone = NoPut
    /\ tight = TRUE
    /\ ret = [w \in Workers |-> NoRet]
    /\ clones = 0
    /\ newc = NoCall
    /\ provider = "memory"
    /\ upstream = [u \in Repos |-> <<[email |-> 1, when |-> 1]>>]
    /\ NoCalls
    /\ req \in Requests
    /\ hpc = "start"
    /\ status = 0
    /\ todo = <<>>
    /\ norm = NoNorm

NextBake ==
    \/ BakeReject
    \/ BakeOrgFail
    \/ BakeWaitOrg
    \/ BakeWaitUrl
    \/ BakeAsyncOrg
    \/ BakeAsyncUrl
    \/ LoopCall
    \/ LoopEnd
    \/ WaitReturn
    \/ \E w \in Workers, u \in Repos : BakeProcessRepository(w, u)
    \/ \E w \in Workers, u \in Repos : BakeGetRepositoryIDFail(w, u)
    \/ \E w \in Workers : InsertRepository(w)
    \/ \E w \in Workers : FetchRepo(w)
    \/ \E w \in Workers, leak \in BOOLEAN : FetchRepoFail(w, leak)
    \/ \E w \in Workers : HeadOK(w)
    \/ \E w \in Workers : LastCommit(w)
    \/ \E w \in Workers : PrepareBulkAuthorInsert(w)
    \/ \E w \in Workers : AuthorForEach(w)
    \/ \E w \in Workers : ResolveAuthors(w)
    \/ \E w \in Workers : PivotTmpTableToAuthorsTable(w)
    \/ \E w \in Workers : AuthorIDs(w)
    \/ \E w \in Workers : PrepareBulkCommitInsert(w)
    \/ \E w \in Workers : CommitForEach(w)
    \/ \E w \in Workers : ResolveCommits(w)
    \/ \E w \in Workers : ReturnErr(w)

SpecBake == InitBake /\ [][NextBake]_vars

\* ====================================================== claims (POST /bake)
\* the request was accepted and the handler has returned
Answered == hpc = "done" /\ Rejected(req) = 0

\* C29: when the handler of a request with wait = true returns after its
\* ingestion failed (processRepository(data.URL) returned an error) the status
\* code of the response is 500, and when it is 202 the ingestion has returned
\* nil.
C29_WaitFailureIs500 ==
    (Answered /\ req.wait /\ req.org = "") =>
        /\ failedAt[1] # "nil" => status = 500
        /\ status = 202 => failedAt[1] = "nil"

\* C30: a POST request whose body decodes, with no url and with the URL of an
\* org that can be listed, is not answered with 400, and once its calls have
\* been made each listed URL was handed to processRepository once.
C30_OrgOnlyAccepted ==
    (hpc = "done" /\ req.method = "POST" /\ req.body = "json"
         /\ req.url = <<>> /\ req.org # "" /\ ~ProcessOrgErr(req)) =>
        /\ status # 400
        /\ (todo = <<>> /\ \A w \in Workers : spawned[w] = 0) =>
               /\ Len(handed) = Len(req.list)
               /\ \A i \in DOMAIN req.list :
                      \E j \in DOMAIN handed : handed[j] = req.list[i].url

\* C31: for a request with a url and no org, the URL with which
\* processRepository is called is the normalized URL (trailing "/" and
\* trailing ".git" stripped), with wait and without.
C31_NormalizedUrlIngested ==
    (req.org = "" /\ Rejected(req) = 0) =>
        \A j \in DOMAIN handed : Url(handed[j]) = NormalizeGitURL(req.url)

\* the handler has expanded the org of the request
Expanded == Rejected(req) = 0 /\ req.org # "" /\ ~ProcessOrgErr(req)
                /\ hpc # "start"

\* the repositories of a listing whose archived flag is false, in input order
NotArchived(l) == SelectSeq(l, LAMBDA r : ~r.val)

\* C32: when archives is false, FilterArchivedRepos returns exactly the
\* listed repositories whose archived flag is false, in input order, and no
\* archived repository is handed to processRepository.
C32_ArchivedFilteredOut ==
    (Expanded /\ ~req.archives) =>
        /\ FilterArchivedRepos(req.list) = NotArchived(req.list)
        /\ \A j \in DOMAIN handed :
               \E i \in DOMAIN req.list :
                   req.list[i].url = handed[j] /\ ~req.list[i].val

\* ====================================================== NormalizeGitURL
\* the URL strings handed to NormalizeGitURL: a scheme and a path of at most
\* MaxLen pieces, each a name (1), a "/" that ends a segment (0) or ".git"
MaxLen == 3

\* the number of times NormalizeGitURL is applied, each time to what it
\* returned
MaxApply == 2

Schemes == {"", "http", "ssh", "https", "git", "file"}

UrlPaths == UNION {[1..n -> {1, 0, DotGit}] : n \in 0..MaxLen}

\* a URL string is about to be normalized
InitNorm ==
    /\ lock = 0
    /\ dll = <<>>
    /\ hm = [k \in Keys |-> NoElem]
    /\ elock = [k \in Keys |-> FALSE]
    /\ disk = [p \in Paths |-> "absent"]
    /\ other = 0
    /\ minFreeDiskGb = 0
    /\ pc = [w \in Workers |-> "idle"]
    /\ op = [w \in Workers |-> "none"]
    /\ key = [w \in Workers |-> 0]
    /\ got = [w \in Workers |-> NoElem]
    /\ ncalls = 0
    /\ mode = "calls"
    /\ last = ""
    /\ putDone = NoPut
    /\ tight = TRUE
    /\ ret = [w \in Workers |-> NoRet]
    /\ clones = 0
    /\ newc = NoCall
    /\ provider = "memory"
    /\ NoIngestion
    /\ req = NoReq
    /\ hpc = "none"
    /\ status = 0
    /\ todo = <<>>
    /\ norm \in {[NoNorm EXCEPT !.scheme = sc, !.path = p] :
                    sc \in Schemes, p \in UrlPaths}

\* the string NormalizeGitURL is applied to next: the URL, then what the
\* call before returned (parsedURL.String() keeps the scheme)
Arg == IF norm.out = <<>> THEN norm.path ELSE norm.out[Len(norm.out)].path

\* NormalizeGitURL can be applied once more
Appliable ==
    /\ Len(norm.out) < MaxApply
    /\ norm.out # <<>> => ~norm.out[Len(norm.out)].err

Applied(r) ==
    /\ norm' = [norm EXCEPT !.out = Append(@, r)]
    /\ UNCHANGED <<req, hpc, status, todo, spawned, handed>>
    /\ UNCHANGED <<cacheVars, ingestVars>>

\* NormalizeGitURL returns the URL with the trimmed path
NormalizeOK ==
    /\ Appliable
    /\ ~NormalizeErr(norm.scheme, Arg)
    /\ Applied([err |-> FALSE, path |-> NormalizeGitURL(Arg)])

\* NormalizeGitURL returns "" and an error
NormalizeFail ==
    /\ Appliable
    /\ NormalizeErr(norm.scheme, Arg)
    /\ Applied([err |-> TRUE, path |-> <<>>])

NextNorm == NormalizeOK \/ NormalizeFail

SpecNorm == InitNorm /\ [][NextNorm]_vars

\* the path ends neither in "/" nor in ".git"
EndsClean(p) == p = <<>> \/ p[Len(p)] \notin {0, DotGit}

\* C33: NormalizeGitURL returns an error for every URL whose scheme is none
\* of https, git, file; the path of every URL it returns ends neither in "/"
\* nor in ".git"; and applied to a URL it returned, it returns that URL.
C33_NormalizeIdempotent ==
    /\ \A i \in DOMAIN norm.out :
           /\ norm.scheme \notin {"https", "git", "file"} => norm.out[i].err
           /\ ~norm.out[i].err => EndsClean(norm.out[i].path)
    /\ (Len(norm.out) = 2 /\ ~norm.out[2].err) =>
           norm.out[2].path = norm.out[1].path

\* ======================================================= claims (the cache)
\* worker w waits for the mutex of an element: the one it found in c.hm (Get,
\* Put) or the victim of tryEvict
Blocked(w) ==
    \/ pc[w] \in {"get_lease", "put_lease"} /\ ~CanLock(key[w])
    \/ /\ pc[w] = "evict"
       /\ BudgetViolated(FreeBytes(disk, other), MinFreeBytes(minFreeDiskGb))
       /\ dll # <<>> /\ ~WalkFails(dll)
       /\ ~CanLock(Victim(dll).key)

\* the step removes a path from the disk
Deletes == \E p \in Paths : disk[p] # "absent" /\ disk'[p] = "absent"

\* C34: no worker holds c.lock while it waits for the mutex of an element,
\* while it is between c.lock.Unlock() and the end of the clone, or in a step
\* that removes a path from the disk.
C34_LockOnlyForBookkeeping ==
    [][\A w \in Workers :
          lock = w =>
              /\ ~Blocked(w)
              /\ pc[w] \notin {"stat", "clone"}
              /\ ~Deletes]_vars

\* neither path is the other or lies inside it
Disjoint(p, q) == ~IsPrefix(p, q) /\ ~IsPrefix(q, p)

\* C35: the paths of two distinct cached URLs are disjoint, and a step that
\* evicts an entry or removes its path for a new clone changes nothing on
\* disk at the path of another cached entry.
C35_PathsPartitioned ==
    [][/\ \A j, k \in Keys :
              (j # k /\ Present(hm, j) /\ Present(hm, k)) =>
                  Disjoint(PathKey(j), PathKey(k))
       /\ \A w \in Workers, k \in Keys :
              ((TryEvictOne(w) \/ PutMkdir(w)) /\ Present(hm', k)
                   /\ key[w] # k) =>
                  disk'[PathKey(k)] = disk[PathKey(k)]]_vars

\* C36: when a Put returns an element (on a hit, after adopting the
\* directory, or after a clone), git.PlainOpen succeeds on the path of the
\* element.
C36_PutReturnsValidRepo ==
    [][\A w \in Workers :
          PutReturns(w) => PlainOpenOK(disk', got'[w].path)]_vars

\* worker w is inside a Get or Put call it made itself
InCall(w) == mode # "fetch" /\ pc[w] \notin {"idle", "held"}

\* C37: when every goroutine that can take a step takes one and every caller
\* that was handed an element calls Done, every Get and every Put call of a
\* worker returns, whatever the budget, the volume and the other workers do.
C37_EveryCallReturns ==
    \A w \in Workers : InCall(w) ~> ~InCall(w)

\* a Put waits, holding c.lock, for an element that another worker is cloning
W_C37 ==
    \E w, x \in Workers :
        /\ InCall(w) /\ pc[w] \in {"get_lease", "put_lease"} /\ lock = w
        /\ Blocked(w)
        /\ pc[x] = "clone" /\ key[x] = key[w]

\* ====================================================== claims (pipeline)
\* C38: when a call returns nil, every commit of its clone (every commit
\* reachable from the head it fetched) has a row in commits with the id of
\* the repository, whatever the committer times of the commits are.
C38_EveryReachableCommitStored ==
    [][\A w \in Workers :
          (st[w] = "resolve_commits" /\ failedAt'[w] = "nil") =>
              \A i \in 1..run[w].clone :
                  \E c \in commits' : c.repo = run[w].repoID /\ c.hash = i]_vars

\* C39: calls of processRepository on one URL do not get in each other's
\* way: no call reaches InsertRepository when repos has the URL (the insert
\* would fail on the unique git_url), no call reaches the
\* ResolveTransaction of its commits with a row that is stored already, repos
\* never has two rows for a URL and commits never two for a commit.
C39_SameUrlSerialized ==
    /\ \A u \in Repos : Cardinality(RowsOf(repos, u)) <= 1
    /\ \A c, d \in commits : (c.repo = d.repo /\ c.hash = d.hash) => c = d
    /\ \A w \in Workers :
           /\ st[w] = "insert" => GetRepositoryID(run[w].repoURL) = 0
           /\ st[w] = "resolve_commits" => ~Conflicts(run[w].stream)

\* ============================================== the budget, from main on
\* main builds the cache in an existing directory with the budget it read
\* with ParseUint(.., 10, 64), and Puts are then made on the cache
InitWrap ==
    /\ InitNew
    /\ newc.dir = <<-1>>
    /\ newc.stat /\ newc.statfs

\* the constructor has returned the cache
Built == newc.err = "nil"

NextWrap ==
    \/ NewGitRepoLRUCache
    \/ \E w \in Workers, k \in Keys : Built /\ PutHit(w, k)
    \/ \E w \in Workers : Built /\ PutLease(w)
    \/ \E w \in Workers, k \in Keys : Built /\ PutMiss(w, k)
    \/ \E w \in Workers : Built /\ TryEvictStatfsFail(w)
    \/ \E w \in Workers : Built /\ TryEvictPinned(w)
    \/ \E w \in Workers : Built /\ TryEvictOne(w)
    \/ \E w \in Workers : Built /\ PutInsert(w)
    \/ \E w \in Workers : Built /\ PutAdopt(w)
    \/ \E w \in Workers : Built /\ PutMkdir(w)
    \/ \E w \in Workers : Built /\ PutMkdirFail(w)
    \/ \E w \in Workers : Built /\ PutCloneOK(w)
    \/ \E w \in Workers : Built /\ PutCloneFail(w)
    \/ \E w \in Workers : Built /\ Done(w)
    \/ \E o \in 0..DiskSize : Built /\ VolumeChanges(o)

SpecWrap == InitWrap /\ [][NextWrap]_vars

\* C40: the budget in bytes is the true product of the configured number and
\* 2^30: the constructor returns the error when the free bytes are at most
\* that product, and tryEvict returns nil to a Put only when the free bytes
\* exceed it or the cache is empty.
C40_BudgetIsTrueProduct ==
    [][/\ (newc.err = "none" /\ newc'.err # "none"
             /\ FreeBytes(disk, other) <= TrueProduct(newc.minFreeGbs))
            => newc'.err = "err_space"
       /\ \A w \in Workers :
              InsertStep(w) =>
                  \/ FreeBytes(disk, other) > TrueProduct(minFreeDiskGb)
                  \/ dll = <<>>]_vars

====
